---- MODULE Spec2Model ----
(***************************************************************************)
(* Model of the tdd-guard Nix test reporter                                *)
(* (reporters/nix/src/tdd-guard-nix.sh): the line scanner                  *)
(* parse_and_save_output and the JSON document it writes (Spec), the       *)
(* script around it, from the argument loop to save_test_results           *)
(* (SpecMain), and LinterProvider.getLinter with the Nix linter adapters    *)
(* Statix and NixfTidy (SpecLint).                                         *)
(*                                                                         *)
(* Text.  TLA+ strings are ASCII, so the four glyphs and the escape byte   *)
(* of the script are written by name inside braces:                        *)
(*   {check} = U+2705 (pass glyph)     {cross} = U+274C (fail glyph)       *)
(*   {party} = U+1F389                 {cry}   = U+1F622                   *)
(*   {ESC}   = byte 0x1b                                                   *)
(* A line of input is a record: its text, and what each regular expression *)
(* of the script answers on that text (the expressions are evaluated here, *)
(* once, per line of the alphabet; the ORDER in which the script consults  *)
(* them is in the actions).                                                *)
(*                                                                         *)
(* A shell string that the script builds by concatenation is a sequence of *)
(* its non-empty pieces, so that the separator it inserts is visible:      *)
(* BackslashN is the two characters backslash, n; Newline is one newline.  *)
(*                                                                         *)
(* The script runs under bash >= 4.4 (it is packaged with the Nix bash):   *)
(* expanding an empty array under `set -u` is not an error there.          *)
(*                                                                         *)
(* An argument of the script is a record of its text, the case pattern it  *)
(* matches and the text after its "=".  Time is counted in seconds: a run  *)
(* of nix-unit prints its output at once and ends after nix_unit.seconds.  *)
(***************************************************************************)
EXTENDS Naturals, Sequences, FiniteSets, TLC

VARIABLES
    lines,                  \* local lines=("$@")
    pc,                     \* where the script is: "args", "validate", "read",
                            \* "run", "loop", "mkdir", "redirect", "write",
                            \* "mv", "done", or "exit" after exit / errexit
    idx,                    \* position of the for loop in lines
    current_tests,          \* local current_tests=()
    overall_reason,         \* local overall_reason="passed"
    has_tests,              \* local has_tests=false
    module_id,              \* local module_id="tests"
    current_test_name,      \* local current_test_name=""
    current_error_details,  \* local current_error_details=""
    in_error_section,       \* local in_error_section=false
    saved,                  \* test.json: <<>> while absent, <<content>> otherwise
    json_output,            \* local json_output of save_test_results, <<>> unset
    data_dir,               \* $PROJECT_ROOT/.claude/tdd-guard/data exists
    temp_file,              \* test.json.tmp: <<>> while absent, <<content>> otherwise
    previous,               \* test.json as it was when the script started
    argv,                   \* "$@" of the script
    argi,                   \* position of `for arg in "$@"`
    shifted,                \* how many positional parameters shift has dropped
    PROJECT_ROOT,
    PASSTHROUGH,
    TEST_FILE,
    TEST_ARGS,
    MAX_EXECUTION_TIME,
    MAX_OUTPUT_LINES,
    output_lines,           \* output_lines=()
    line_count,             \* line_count=0
    exit_status,            \* <<>> while running, <<status>> once exited
    stdin,                  \* the lines on standard input
    nix_unit,               \* what nix-unit does when run: [output, seconds, status]
    timeout_cmd,            \* which of timeout / gtimeout `command -v` finds
    cwd_files,              \* the files of the current directory
    config,                 \* actualConfig of getLinter: [linterType]
    linter,                 \* what getLinter returned, "none" before
    filePaths,              \* the files given to lint()
    file_index,             \* position of `for (const filePath of filePaths)`
    issues,                 \* const issues: LintIssue[] = []
    tool_outcomes,          \* what the linter process did, call after call
    lint_result,            \* <<>> while pending, <<how the promise settled>>
    children,               \* the lintFile calls: child process and promise
    savers,                 \* two invocations inside save_test_results
    data_files              \* the data directory they share: paths and files

parserVars == <<lines, idx, current_tests, overall_reason, has_tests, module_id,
                current_test_name, current_error_details, in_error_section>>

fileVars == <<json_output, data_dir, temp_file, previous>>

mainVars == <<argv, argi, shifted, PROJECT_ROOT, PASSTHROUGH, TEST_FILE,
              TEST_ARGS, MAX_EXECUTION_TIME, MAX_OUTPUT_LINES, output_lines,
              line_count, exit_status>>

envVars == <<stdin, nix_unit, timeout_cmd, cwd_files>>

lintVars == <<config, linter, filePaths, file_index, issues, tool_outcomes,
              lint_result, children>>

saveVars == <<savers, data_files>>

vars == <<parserVars, pc, saved, fileVars, mainVars, envVars, lintVars, saveVars>>

-----------------------------------------------------------------------------
(* Bounds *)

\* Longest input enumerated exhaustively over Alphabet.
MaxLen == 3

-----------------------------------------------------------------------------
(* Lines of input *)

\* The separator written by "$current_error_details\n$clean_line": inside
\* double quotes bash keeps backslash-n as two characters.
BackslashN == "\\n"

\* The line terminator written by printf '%s\n'.
Newline == "\n"

\* text    : the line
\* blank   : empty, or matches ^[[:space:]]*$
\* warning : matches ^warning:
\* status  : matches ^({check}|{cross})[[:space:]]+([^[:space:]]+): "pass"/"fail"
\* name    : the second group of that match
\* summary : matches ^({party}|{cry})[[:space:]]+([0-9]+)/([0-9]+)[[:space:]]+successful
\* passed, total : its second and third groups (strings of digits)
\* error   : matches error:|Error:|syntax[[:space:]]+error
\* clean   : the text after sed 's/\x1b\[[0-9;]*m//g'
Ln(text, blank, warning, status, name, summary, passed, total, error, clean) ==
    [text |-> text, blank |-> blank, warning |-> warning, status |-> status,
     name |-> name, summary |-> summary, passed |-> passed, total |-> total,
     error |-> error, clean |-> clean]

Plain(text) == Ln(text, FALSE, FALSE, "none", "", "none", "", "", FALSE, text)

LEmpty    == Ln("", TRUE, FALSE, "none", "", "none", "", "", FALSE, "")
LSpaces   == Ln("  ", TRUE, FALSE, "none", "", "none", "", "", FALSE, "  ")
LWarning  == Ln("warning: unknown setting 'allowed-users'", FALSE, TRUE,
                "none", "", "none", "", "", FALSE,
                "warning: unknown setting 'allowed-users'")
LWarnErr  == Ln("warning: error: ignored", FALSE, TRUE,
                "none", "", "none", "", "", TRUE, "warning: error: ignored")
PassLine(n) == Ln("{check} " \o n, FALSE, FALSE, "pass", n, "none", "", "",
                  FALSE, "{check} " \o n)
FailLine(n) == Ln("{cross} " \o n, FALSE, FALSE, "fail", n, "none", "", "",
                  FALSE, "{cross} " \o n)
SummaryLine(g, p, t) ==
    Ln("{" \o g \o "} " \o p \o "/" \o t \o " successful", FALSE, FALSE,
       "none", "", g, p, t, FALSE,
       "{" \o g \o "} " \o p \o "/" \o t \o " successful")
LDetail1  == Plain("detail1")
LDetail2  == Plain("detail2")
LColor    == Ln("{ESC}[31mexpected{ESC}[0m", FALSE, FALSE, "none", "", "none",
                "", "", FALSE, "expected")
LAnsiOnly == Ln("{ESC}[0m", FALSE, FALSE, "none", "", "none", "", "", FALSE, "")
LError    == Ln("error: syntax error, unexpected token", FALSE, FALSE, "none",
                "", "none", "", "", TRUE,
                "error: syntax error, unexpected token")

Alphabet ==
    { LEmpty, LSpaces, LWarning, LWarnErr, PassLine("testA"), FailLine("testB"),
      LDetail1, LColor, LAnsiOnly, LError,
      SummaryLine("party", "1", "1"), SummaryLine("party", "1", "2"),
      SummaryLine("cry", "0", "1"), SummaryLine("cry", "1", "1") }

\* The self-test inputs at the end of the parser file, and the five-line
\* example of the specification.
passing_output ==
    << PassLine("testBasicMath"), PassLine("testBooleanLogic"),
       PassLine("testListLength"), PassLine("testStringConcatenation"),
       LEmpty, SummaryLine("party", "4", "4"), LWarning >>

failing_output ==
    << FailLine("testBasicMath"), Plain("/tmp/nix-123/expected.nix --- Nix"),
       Plain("1 5                           1 6"), LEmpty,
       FailLine("testStringConcatenation"),
       Plain("/tmp/nix-456/expected.nix --- Nix"),
       Plain("1 \"helloworld\"                1 \"hello world\""), LEmpty,
       SummaryLine("cry", "0", "2"),
       Ln("error: Tests failed", FALSE, FALSE, "none", "", "none", "", "",
          TRUE, "error: Tests failed") >>

error_output ==
    << Ln("error: syntax error, unexpected IN_KW", FALSE, FALSE, "none", "",
          "none", "", "", TRUE, "error: syntax error, unexpected IN_KW"),
       Plain("at /path/to/tests.nix:8:20:"),
       Plain("    7|   testWithBadSyntax = {"),
       Plain("    8|     expr = let x = in x;"),
       Plain("     |                    ^") >>

ExampleInput ==
    << PassLine("testA"), FailLine("testB"), LDetail1, LDetail2,
       SummaryLine("party", "1", "2") >>

SeqsUpTo(S, n) == UNION { [1..k -> S] : k \in 0..n }

Inputs ==
    SeqsUpTo(Alphabet, MaxLen)
        \cup { passing_output, failing_output, error_output, ExampleInput }

-----------------------------------------------------------------------------
(* JSON constructors *)

create_test_error(message) == [message |-> message]

\* create_test without the jq conditional: the errors key is always written.
create_test_AlwaysErrors(name, full_name, state, errors) ==
    [name |-> name, fullName |-> full_name, state |-> state, errors |-> errors]

create_test(name, full_name, state, errors) ==
    IF Len(errors) > 0
    THEN [name |-> name, fullName |-> full_name, state |-> state,
          errors |-> errors]
    ELSE [name |-> name, fullName |-> full_name, state |-> state]

create_test_module(id, tests) == [moduleId |-> id, tests |-> tests]

create_test_result(modules, reason) ==
    [testModules |-> modules, reason |-> reason]

\* The full name with the module written out: "tests.$test_name".
FullName_Tests(id, name) == <<"tests", ".", name>>

\* "$module_id.$test_name"
FullName(id, name) == <<id, ".", name>>

-----------------------------------------------------------------------------
(* Pieces of parse_and_save_output *)

\* [[ -n "$line" && ! "$line" =~ ^[[:space:]]*$ ]] || continue
\* [[ ! "$line" =~ ^warning: ]] || continue
Skipped(line) == line.blank \/ line.warning

\* The errors array built when a later status line closes a failing test.
FlushErrors(details) ==
    IF details # <<>> THEN <<create_test_error(details)>> ELSE <<>>

\* The status branch without its first block: the failing test that is
\* open is not saved.
SavePrevious_Dropped(tests, closing, name, id, details) == tests

\* "Save any previous error details": current_tests after the first block
\* of the status branch, which closes the failing test that is open.
SavePrevious(tests, closing, name, id, details) ==
    IF closing
    THEN Append(tests,
                create_test(name, FullName(id, name), "failed", FlushErrors(details)))
    ELSE tests

\* The errors array built when the end of the input closes a failing test.
RemainingErrors(details) ==
    IF details # <<>>
    THEN <<create_test_error(details)>>
    ELSE <<create_test_error(<<"Test failed">>)>>

\* current_error_details after one more cleaned line.
AppendDetail(details, clean) ==
    IF clean # ""
    THEN IF details # <<>>
         THEN details \o <<BackslashN, clean>>
         ELSE <<clean>>
    ELSE details

\* The failing branch without overall_reason="failed".
TestLineReason_Kept(status, reason) == reason

\* overall_reason after a status line.
TestLineReason(status, reason) ==
    IF status = "pass" THEN reason ELSE "failed"

\* The summary check without the glyph comparison.
SummaryReason_CountsOnly(emoji, passed, total, reason) ==
    IF passed # total THEN "failed" ELSE reason

\* overall_reason after a summary line.
SummaryReason(emoji, passed, total, reason) ==
    IF emoji = "cry" \/ passed # total THEN "failed" ELSE reason

\* overall_reason="failed" moved inside the has_tests test.
ErrorLineReason_OnlyWithoutTests(had_tests, reason) ==
    IF had_tests = FALSE THEN "failed" ELSE reason

\* overall_reason after an error line.
ErrorLineReason(had_tests, reason) == "failed"

\* The error branch without the has_tests test.
ErrorLineTests_Unguarded(had_tests, tests, line) ==
    Append(tests,
           create_test("evaluation", FullName("compilation", "evaluation"),
                       "failed", <<create_test_error(<<line.text>>)>>))

\* current_tests after an error line.
ErrorLineTests(had_tests, tests, line) ==
    IF had_tests = FALSE
    THEN Append(tests,
                create_test("evaluation", FullName("compilation", "evaluation"),
                            "failed", <<create_test_error(<<line.text>>)>>))
    ELSE tests

\* printf '%s\n' "${lines[@]}": every line followed by a newline.
RECURSIVE PrintfLines(_)
PrintfLines(ls) ==
    IF ls = <<>> THEN <<>>
    ELSE (IF Head(ls).text = "" THEN <<>> ELSE <<Head(ls).text>>)
             \o <<Newline>> \o PrintfLines(Tail(ls))

\* $( ... ): command substitution drops every trailing newline.
RECURSIVE CommandSubstitution(_)
CommandSubstitution(out) ==
    IF out # <<>> /\ out[Len(out)] = Newline
    THEN CommandSubstitution(SubSeq(out, 1, Len(out) - 1))
    ELSE out

\* The fold taking only the lines the loop did not skip as warnings.
FoldMessage_SkipWarnings(ls) ==
    LET NotWarning(l) == ~l.warning
    IN  CommandSubstitution(PrintfLines(SelectSeq(ls, NotWarning)))

\* error_messages="$(printf '%s\n' "${lines[@]}")"
FoldMessage(ls) == CommandSubstitution(PrintfLines(ls))

-----------------------------------------------------------------------------
(* The state machine *)

\* The globals before the argument loop.
ScriptDefaults ==
    /\ PROJECT_ROOT = ""
    /\ PASSTHROUGH = FALSE
    /\ TEST_FILE = ""
    /\ TEST_ARGS = <<>>
    /\ MAX_EXECUTION_TIME = "300"
    /\ MAX_OUTPUT_LINES = "10000"

\* No lint call is in progress.
NoLint ==
    /\ config = [linterType |-> <<>>]
    /\ linter = "none"
    /\ filePaths = <<>>
    /\ file_index = 1
    /\ issues = <<>>
    /\ tool_outcomes = <<>>
    /\ lint_result = <<>>
    /\ children = <<>>

\* No second invocation runs.
NoSavers ==
    /\ savers = <<>>
    /\ data_files = [inodes |-> <<>>, temp_file |-> <<>>, output_file |-> <<>>]

\* The locals of parse_and_save_output when it is entered.
ParserLocals ==
    /\ idx = 1
    /\ current_tests = <<>>
    /\ overall_reason = "passed"
    /\ has_tests = FALSE
    /\ module_id = "tests"
    /\ current_test_name = ""
    /\ current_error_details = <<>>
    /\ in_error_section = FALSE

\* parse_and_save_output entered with any input, in a project that has no
\* data directory yet.
Init ==
    /\ lines \in Inputs
    /\ pc = "loop"
    /\ ParserLocals
    /\ saved = <<>>
    /\ json_output = <<>>
    /\ data_dir = FALSE
    /\ temp_file = <<>>
    /\ previous = <<>>
    /\ argv = <<>>
    /\ argi = 1
    /\ shifted = 0
    /\ ScriptDefaults
    /\ output_lines = lines
    /\ line_count = 0
    /\ exit_status = <<>>
    /\ stdin = <<>>
    /\ nix_unit = [output |-> lines, seconds |-> 1, status |-> 0]
    /\ timeout_cmd = "timeout"
    /\ cwd_files = {"tests.nix"}
    /\ NoLint
    /\ NoSavers

InLoop == pc = "loop" /\ idx <= Len(lines)

\* Empty lines and warnings: continue.
SkipLine ==
    /\ InLoop
    /\ Skipped(lines[idx])
    /\ idx' = idx + 1
    /\ UNCHANGED <<lines, pc, current_tests, overall_reason, has_tests,
                   module_id, current_test_name, current_error_details,
                   in_error_section, saved>>
    /\ UNCHANGED <<fileVars, mainVars, envVars>>
    /\ UNCHANGED <<lintVars, saveVars>>

\* A status line: close the failing test that is open, then record this one.
TestResultLine ==
    /\ InLoop
    /\ ~Skipped(lines[idx])
    /\ lines[idx].status # "none"
    /\ LET line    == lines[idx]
           closing == current_test_name # "" /\ in_error_section = TRUE
           flushed == SavePrevious(current_tests, closing, current_test_name,
                                   module_id, current_error_details)
       IN  /\ has_tests' = TRUE
           /\ overall_reason' = TestLineReason(line.status, overall_reason)
           /\ IF line.status = "pass"
              THEN /\ current_tests' =
                          Append(flushed,
                                 create_test(line.name,
                                             FullName(module_id, line.name),
                                             "passed", <<>>))
                   /\ current_test_name' = ""
                   /\ in_error_section' = IF closing THEN FALSE ELSE in_error_section
              ELSE /\ current_tests' = flushed
                   /\ current_test_name' = line.name
                   /\ in_error_section' = TRUE
           /\ current_error_details' =
                  IF closing THEN <<>> ELSE current_error_details
    /\ idx' = idx + 1
    /\ UNCHANGED <<lines, pc, module_id, saved>>
    /\ UNCHANGED <<fileVars, mainVars, envVars>>
    /\ UNCHANGED <<lintVars, saveVars>>

\* Any other line while a failing test is open is error detail.
CollectErrorDetail ==
    /\ InLoop
    /\ ~Skipped(lines[idx])
    /\ lines[idx].status = "none"
    /\ in_error_section = TRUE
    /\ current_error_details' =
           AppendDetail(current_error_details, lines[idx].clean)
    /\ idx' = idx + 1
    /\ UNCHANGED <<lines, pc, current_tests, overall_reason, has_tests,
                   module_id, current_test_name, in_error_section, saved>>
    /\ UNCHANGED <<fileVars, mainVars, envVars>>
    /\ UNCHANGED <<lintVars, saveVars>>

\* A summary line outside an error section.
SummaryResultLine ==
    /\ InLoop
    /\ ~Skipped(lines[idx])
    /\ lines[idx].status = "none"
    /\ in_error_section # TRUE
    /\ lines[idx].summary # "none"
    /\ overall_reason' = SummaryReason(lines[idx].summary, lines[idx].passed,
                                       lines[idx].total, overall_reason)
    /\ idx' = idx + 1
    /\ UNCHANGED <<lines, pc, current_tests, has_tests, module_id,
                   current_test_name, current_error_details, in_error_section,
                   saved>>
    /\ UNCHANGED <<fileVars, mainVars, envVars>>
    /\ UNCHANGED <<lintVars, saveVars>>

\* An error line outside an error section.
ErrorLine ==
    /\ InLoop
    /\ ~Skipped(lines[idx])
    /\ lines[idx].status = "none"
    /\ in_error_section # TRUE
    /\ lines[idx].summary = "none"
    /\ lines[idx].error
    /\ overall_reason' = ErrorLineReason(has_tests, overall_reason)
    /\ current_tests' = ErrorLineTests(has_tests, current_tests, lines[idx])
    /\ module_id' = IF has_tests = FALSE THEN "compilation" ELSE module_id
    /\ has_tests' = TRUE
    /\ idx' = idx + 1
    /\ UNCHANGED <<lines, pc, current_test_name, current_error_details,
                   in_error_section, saved>>
    /\ UNCHANGED <<fileVars, mainVars, envVars>>
    /\ UNCHANGED <<lintVars, saveVars>>

\* No branch of the if/elif chain matches: the line is dropped.
UnmatchedLine ==
    /\ InLoop
    /\ ~Skipped(lines[idx])
    /\ lines[idx].status = "none"
    /\ in_error_section # TRUE
    /\ lines[idx].summary = "none"
    /\ ~lines[idx].error
    /\ idx' = idx + 1
    /\ UNCHANGED <<lines, pc, current_tests, overall_reason, has_tests,
                   module_id, current_test_name, current_error_details,
                   in_error_section, saved>>
    /\ UNCHANGED <<fileVars, mainVars, envVars>>
    /\ UNCHANGED <<lintVars, saveVars>>

\* overall_reason when the whole output is folded into one failure.
FoldReason(reason) == "failed"

\* The fold without the test on the number of lines.
NoTestsFound_AnyOutput(found, ls) == found = FALSE

\* [[ "$has_tests" == false && ${#lines[@]} -gt 0 ]]
NoTestsFound(found, ls) == found = FALSE /\ Len(ls) > 0

\* After the loop: close the open failing test, fold an output without
\* tests, build the module and the result, save_test_results.
FinishParse ==
    /\ pc = "loop"
    /\ idx > Len(lines)
    /\ LET remaining ==
               IF current_test_name # "" /\ in_error_section = TRUE
               THEN Append(current_tests,
                           create_test(current_test_name,
                                       FullName(module_id, current_test_name),
                                       "failed",
                                       RemainingErrors(current_error_details)))
               ELSE current_tests
           fold == NoTestsFound(has_tests, lines)
           tests ==
               IF fold
               THEN Append(remaining,
                           create_test("evaluation",
                                       FullName("compilation", "evaluation"),
                                       "failed",
                                       <<create_test_error(FoldMessage(lines))>>))
               ELSE remaining
           id == IF fold THEN "compilation" ELSE module_id
           reason == IF fold THEN FoldReason(overall_reason) ELSE overall_reason
           test_modules ==
               IF Len(tests) > 0
               THEN <<create_test_module(id, tests)>>
               ELSE <<>>
       IN  /\ current_tests' = tests
           /\ module_id' = id
           /\ overall_reason' = reason
           /\ json_output' = <<create_test_result(test_modules, reason)>>
    /\ pc' = "mkdir"
    /\ UNCHANGED <<lines, idx, has_tests, current_test_name,
                   current_error_details, in_error_section, saved>>
    /\ UNCHANGED <<data_dir, temp_file, previous, mainVars, envVars>>
    /\ UNCHANGED <<lintVars, saveVars>>

\* The content of a file that holds only part of a document: what a reader
\* finds between the opening of the file and the end of the write.
Truncated(document) == [truncated |-> document]

\* mv started while jq is still writing.
WrittenDocument_Unfinished(document) == <<Truncated(document)>>

\* The file behind the redirection once jq '.' has ended.
WrittenDocument(document) == <<document>>

\* mkdir -p "$data_dir"
MakeDataDir ==
    /\ pc = "mkdir"
    /\ data_dir' = TRUE
    /\ pc' = "redirect"
    /\ UNCHANGED <<parserVars, saved, json_output, temp_file, previous,
                   mainVars, envVars>>
    /\ UNCHANGED <<lintVars, saveVars>>

\* > "$temp_file": the shell creates or empties the temp file.
OpenTempFile ==
    /\ pc = "redirect"
    /\ temp_file' = <<Truncated(json_output[1])>>
    /\ pc' = "write"
    /\ UNCHANGED <<parserVars, saved, json_output, data_dir, previous,
                   mainVars, envVars>>
    /\ UNCHANGED <<lintVars, saveVars>>

\* echo "$json_output" | jq '.': the document goes into the temp file.
WriteTempFile ==
    /\ pc = "write"
    /\ temp_file' = WrittenDocument(json_output[1])
    /\ pc' = "mv"
    /\ UNCHANGED <<parserVars, saved, json_output, data_dir, previous,
                   mainVars, envVars>>
    /\ UNCHANGED <<lintVars, saveVars>>

\* mv "$temp_file" "$output_file"; the function returns and the script
\* ends with the status of its last command.
MoveTempFile ==
    /\ pc = "mv"
    /\ saved' = temp_file
    /\ temp_file' = <<>>
    /\ pc' = "done"
    /\ exit_status' = <<0>>
    /\ UNCHANGED <<parserVars, json_output, data_dir, previous, envVars>>
    /\ UNCHANGED <<argv, argi, shifted, PROJECT_ROOT, PASSTHROUGH, TEST_FILE,
                   TEST_ARGS, MAX_EXECUTION_TIME, MAX_OUTPUT_LINES,
                   output_lines, line_count>>
    /\ UNCHANGED <<lintVars, saveVars>>

Next ==
    \/ SkipLine
    \/ TestResultLine
    \/ CollectErrorDetail
    \/ SummaryResultLine
    \/ ErrorLine
    \/ UnmatchedLine
    \/ FinishParse
    \/ MakeDataDir
    \/ OpenTempFile
    \/ WriteTempFile
    \/ MoveTempFile

Spec == Init /\ [][Next]_vars

-----------------------------------------------------------------------------
(* The script around the parser: arguments *)

\* Longest argument list enumerated exhaustively over ArgAlphabet.
MaxArgs == 2

\* text   : the argument
\* branch : the first pattern of the case statement that matches it
\* value  : ${arg#*=}, the text after the first "="
Arg(text, branch, value) == [text |-> text, branch |-> branch, value |-> value]

RootEq(p)     == Arg("--project-root=" \o p, "--project-root=*", p)
TestFileEq(p) == Arg("--test-file=" \o p, "--test-file=*", p)
TimeoutEq(n)  == Arg("--timeout=" \o n, "--timeout=*", n)
MaxOutputEq(n) == Arg("--max-output=" \o n, "--max-output=*", n)
RootFlag      == Arg("--project-root", "--project-root", "")
Passthrough   == Arg("--passthrough", "--passthrough", "")
Help          == Arg("--help", "--help", "")
Word(text)    == Arg(text, "*", "")

\* [[ "$p" = /* ]]
IsAbsolute(p) == p \in {"/proj", "/missing"}

\* [[ -d "$p" ]]: the directories that exist ("rel" under the current one).
IsDirectory(p) == p \in {"/proj", "rel"}

\* The decimal strings used here and their values.
Number ==
    ("0" :> 0) @@ ("1" :> 1) @@ ("2" :> 2) @@ ("5" :> 5) @@ ("300" :> 300)
        @@ ("10000" :> 10000)

\* [[ "$s" =~ ^[0-9]+$ ]]
AllDigits(s) == s \in DOMAIN Number

ArgAlphabet ==
    { RootEq("/proj"), RootEq("rel"), RootEq("/missing"), RootFlag,
      Word("/proj"), Passthrough, Help, TimeoutEq("5"), TimeoutEq("0"),
      TimeoutEq("abc"), MaxOutputEq("1"), MaxOutputEq("abc"),
      Word("--verbose") }

\* Argument lists of the documentation and of the test factory.
ArgScenarios ==
    { << RootFlag, Word("/proj"), Passthrough >>,
      << Passthrough, RootFlag, Word("/proj") >>,
      << RootFlag, Word("/proj"), Help >>,
      << RootEq("/proj"), Word("--test-file"), Word("t.nix") >>,
      << RootEq("/proj"), Word("--timeout"), Word("5") >>,
      << RootEq("/proj"), Word("--max-output"), Word("1") >>,
      << RootEq("/proj"), Word("--timeout"), Word("abc") >>,
      << RootEq("/proj"), Word("--max-output"), Word("0") >>,
      << RootEq("/proj"), TestFileEq("t.nix") >>,
      << RootEq("/proj"), TestFileEq("t.nix"), Word("--verbose") >>,
      << RootEq("/proj"), MaxOutputEq("2") >>,
      << RootEq("/proj"), MaxOutputEq("2"), TimeoutEq("5") >>,
      << RootEq("/proj"), MaxOutputEq("1"), Passthrough >>,
      << RootEq("/proj"), MaxOutputEq("0") >>,
      << RootEq(""), Passthrough >> }

ArgLists == SeqsUpTo(ArgAlphabet, MaxArgs) \cup ArgScenarios

\* exit N, or a failing command under set -e.
Exit(status) ==
    /\ pc' = "exit"
    /\ exit_status' = <<status>>

\* shift, then the next turn of the for loop; shift fails when no
\* positional parameter is left, and set -e ends the script.
ShiftAndContinue ==
    IF shifted < Len(argv)
    THEN /\ shifted' = shifted + 1
         /\ argi' = argi + 1
         /\ UNCHANGED <<pc, exit_status>>
    ELSE /\ Exit(1)
         /\ UNCHANGED <<shifted, argi>>

InArgs(branch) ==
    pc = "args" /\ argi <= Len(argv) /\ argv[argi].branch = branch

\* --project-root=*)
ArgProjectRootEq ==
    /\ InArgs("--project-root=*")
    /\ PROJECT_ROOT' = argv[argi].value
    /\ ShiftAndContinue
    /\ UNCHANGED <<parserVars, saved, fileVars, envVars, argv, PASSTHROUGH,
                   TEST_FILE, TEST_ARGS, MAX_EXECUTION_TIME, MAX_OUTPUT_LINES,
                   output_lines, line_count>>
    /\ UNCHANGED <<lintVars, saveVars>>

\* --project-root) shift; PROJECT_ROOT="$1"; shift.  The first shift fails
\* when nothing is left; "$1" is unbound (set -u) when the shift dropped the
\* last parameter.
ArgProjectRoot ==
    /\ InArgs("--project-root")
    /\ IF shifted + 2 <= Len(argv)
       THEN /\ PROJECT_ROOT' = argv[shifted + 2].text
            /\ shifted' = shifted + 2
            /\ argi' = argi + 1
            /\ UNCHANGED <<pc, exit_status>>
       ELSE /\ Exit(1)
            /\ shifted' = IF shifted < Len(argv) THEN shifted + 1 ELSE shifted
            /\ UNCHANGED <<PROJECT_ROOT, argi>>
    /\ UNCHANGED <<parserVars, saved, fileVars, envVars, argv, PASSTHROUGH,
                   TEST_FILE, TEST_ARGS, MAX_EXECUTION_TIME, MAX_OUTPUT_LINES,
                   output_lines, line_count>>
    /\ UNCHANGED <<lintVars, saveVars>>

\* --passthrough)
ArgPassthrough ==
    /\ InArgs("--passthrough")
    /\ PASSTHROUGH' = TRUE
    /\ ShiftAndContinue
    /\ UNCHANGED <<parserVars, saved, fileVars, envVars, argv, PROJECT_ROOT,
                   TEST_FILE, TEST_ARGS, MAX_EXECUTION_TIME, MAX_OUTPUT_LINES,
                   output_lines, line_count>>
    /\ UNCHANGED <<lintVars, saveVars>>

\* --test-file=*)
ArgTestFileEq ==
    /\ InArgs("--test-file=*")
    /\ TEST_FILE' = argv[argi].value
    /\ ShiftAndContinue
    /\ UNCHANGED <<parserVars, saved, fileVars, envVars, argv, PROJECT_ROOT,
                   PASSTHROUGH, TEST_ARGS, MAX_EXECUTION_TIME, MAX_OUTPUT_LINES,
                   output_lines, line_count>>
    /\ UNCHANGED <<lintVars, saveVars>>

\* --timeout=*)
ArgTimeoutEq ==
    /\ InArgs("--timeout=*")
    /\ MAX_EXECUTION_TIME' = argv[argi].value
    /\ ShiftAndContinue
    /\ UNCHANGED <<parserVars, saved, fileVars, envVars, argv, PROJECT_ROOT,
                   PASSTHROUGH, TEST_FILE, TEST_ARGS, MAX_OUTPUT_LINES,
                   output_lines, line_count>>
    /\ UNCHANGED <<lintVars, saveVars>>

\* --max-output=*)
ArgMaxOutputEq ==
    /\ InArgs("--max-output=*")
    /\ MAX_OUTPUT_LINES' = argv[argi].value
    /\ ShiftAndContinue
    /\ UNCHANGED <<parserVars, saved, fileVars, envVars, argv, PROJECT_ROOT,
                   PASSTHROUGH, TEST_FILE, TEST_ARGS, MAX_EXECUTION_TIME,
                   output_lines, line_count>>
    /\ UNCHANGED <<lintVars, saveVars>>

\* --help) the usage text, exit 0.
ArgHelp ==
    /\ InArgs("--help")
    /\ Exit(0)
    /\ UNCHANGED <<parserVars, saved, fileVars, envVars, argv, argi, shifted,
                   PROJECT_ROOT, PASSTHROUGH, TEST_FILE, TEST_ARGS,
                   MAX_EXECUTION_TIME, MAX_OUTPUT_LINES, output_lines,
                   line_count>>
    /\ UNCHANGED <<lintVars, saveVars>>

\* *) TEST_ARGS+=("$arg")
ArgOther ==
    /\ InArgs("*")
    /\ TEST_ARGS' = Append(TEST_ARGS, argv[argi].text)
    /\ ShiftAndContinue
    /\ UNCHANGED <<parserVars, saved, fileVars, envVars, argv, PROJECT_ROOT,
                   PASSTHROUGH, TEST_FILE, MAX_EXECUTION_TIME, MAX_OUTPUT_LINES,
                   output_lines, line_count>>
    /\ UNCHANGED <<lintVars, saveVars>>

\* done: the loop has taken every argument.
EndArgs ==
    /\ pc = "args"
    /\ argi > Len(argv)
    /\ pc' = "validate"
    /\ UNCHANGED <<parserVars, saved, fileVars, mainVars, envVars, saveVars>>
    /\ UNCHANGED <<lintVars, saveVars>>

-----------------------------------------------------------------------------
(* The script around the parser: validation *)

\* ! [[ "$n" =~ ^[0-9]+$ ]] || [[ "$n" -le 0 ]]
NotPositiveInteger(n) == ~AllDigits(n) \/ Number[n] <= 0

\* The first validation that fails, "" when none does.
ValidationError(root, seconds, cap) ==
    IF root = "" THEN "--project-root is required"
    ELSE IF ~IsAbsolute(root) THEN "project-root must be an absolute path"
    ELSE IF ~IsDirectory(root) THEN "project-root directory does not exist"
    ELSE IF NotPositiveInteger(seconds) THEN "--timeout must be a positive integer"
    ELSE IF NotPositiveInteger(cap) THEN "--max-output must be a positive integer"
    ELSE ""

\* The five checks; the first that fails prints its message and exits 1.
Validate ==
    /\ pc = "validate"
    /\ IF ValidationError(PROJECT_ROOT, MAX_EXECUTION_TIME, MAX_OUTPUT_LINES) # ""
       THEN Exit(1)
       ELSE /\ pc' = IF PASSTHROUGH = TRUE THEN "read" ELSE "find"
            /\ UNCHANGED exit_status
    /\ UNCHANGED <<parserVars, saved, fileVars, envVars, argv, argi, shifted,
                   PROJECT_ROOT, PASSTHROUGH, TEST_FILE, TEST_ARGS,
                   MAX_EXECUTION_TIME, MAX_OUTPUT_LINES, output_lines,
                   line_count>>
    /\ UNCHANGED <<lintVars, saveVars>>

-----------------------------------------------------------------------------
(* The script around the parser: passthrough mode *)

\* The status of (( n++ )): an arithmetic command fails when its expression
\* is 0, and the value of n++ is n before the increment.
PostIncrementStatus(n) == IF n = 0 THEN 1 ELSE 0

TruncationWarning == Plain("Warning: Output truncated - too many lines")

\* One turn of the while loop: echo, output_lines+=("$line"),
\* ((line_count++)); set -e ends the script when that command fails.
ReadLine ==
    /\ pc = "read"
    /\ Len(output_lines) < Len(stdin)
    /\ line_count < Number[MAX_OUTPUT_LINES]
    /\ output_lines' = Append(output_lines, stdin[Len(output_lines) + 1])
    /\ line_count' = line_count + 1
    /\ IF PostIncrementStatus(line_count) # 0
       THEN Exit(1)
       ELSE UNCHANGED <<pc, exit_status>>
    /\ UNCHANGED <<parserVars, saved, fileVars, envVars, argv, argi, shifted,
                   PROJECT_ROOT, PASSTHROUGH, TEST_FILE, TEST_ARGS,
                   MAX_EXECUTION_TIME, MAX_OUTPUT_LINES>>
    /\ UNCHANGED <<lintVars, saveVars>>

\* The loop ends on end of input or at the cap; the warning entry when the
\* cap was reached; parse_and_save_output "${output_lines[@]}".
EndRead ==
    /\ pc = "read"
    /\ ~(Len(output_lines) < Len(stdin) /\ line_count < Number[MAX_OUTPUT_LINES])
    /\ output_lines' =
           IF line_count >= Number[MAX_OUTPUT_LINES]
           THEN Append(output_lines, TruncationWarning)
           ELSE output_lines
    /\ lines' = output_lines'
    /\ pc' = "loop"
    /\ UNCHANGED <<idx, current_tests, overall_reason, has_tests, module_id,
                   current_test_name, current_error_details, in_error_section>>
    /\ UNCHANGED <<saved, fileVars, envVars, argv, argi, shifted, PROJECT_ROOT,
                   PASSTHROUGH, TEST_FILE, TEST_ARGS, MAX_EXECUTION_TIME,
                   MAX_OUTPUT_LINES, line_count, exit_status>>
    /\ UNCHANGED <<lintVars, saveVars>>

-----------------------------------------------------------------------------
(* The script around the parser: run mode *)

\* TEST_FILE after the search: the file given, else tests.nix, else
\* test.nix, else "" (none found).
FindTestFile(given, files) ==
    IF given # "" THEN given
    ELSE IF "tests.nix" \in files THEN "tests.nix"
    ELSE IF "test.nix" \in files THEN "test.nix"
    ELSE ""

\* if [[ -z "$TEST_FILE" ]] ... exit 1 when no file is found.
FindTest ==
    /\ pc = "find"
    /\ TEST_FILE' = FindTestFile(TEST_FILE, cwd_files)
    /\ IF TEST_FILE' = "" THEN Exit(1)
       ELSE /\ pc' = "run"
            /\ UNCHANGED exit_status
    /\ UNCHANGED <<parserVars, saved, fileVars, envVars, argv, argi, shifted,
                   PROJECT_ROOT, PASSTHROUGH, TEST_ARGS, MAX_EXECUTION_TIME,
                   MAX_OUTPUT_LINES, output_lines, line_count>>
    /\ UNCHANGED <<lintVars, saveVars>>

\* run_with_limits: timeout (or gtimeout) kills the command after
\* MAX_EXECUTION_TIME seconds and answers 124; with neither installed the
\* command runs to its end.
TimedOut(run, seconds, cmd) == cmd # "none" /\ run.seconds > Number[seconds]

run_with_limits(run, seconds, cmd) ==
    [output |-> run.output,
     status |-> IF TimedOut(run, seconds, cmd) THEN 124 ELSE run.status]

\* head -n "$MAX_OUTPUT_LINES"
limit_output(out, cap) ==
    SubSeq(out, 1, IF Len(out) < Number[cap] THEN Len(out) ELSE Number[cap])

\* The status of `mapfile -t output_lines < <(pipeline)`: mapfile succeeds
\* on end of input; the status of a process substitution is not seen by the
\* command that reads it.
MapfileStatus(pipeline_status) == 0

TimeoutLines(seconds) ==
    << Ln("Error: Test execution timed out after " \o seconds \o " seconds",
          FALSE, FALSE, "none", "", "none", "", "", TRUE,
          "Error: Test execution timed out after " \o seconds \o " seconds"),
       Plain("This may indicate infinite recursion or excessive computation") >>

\* if ! mapfile ... ; then exit_code=$? ...: inside the then-part of
\* `if ! cmd`, $? is the status of `! cmd`, which is 0.
RunNixUnit ==
    /\ pc = "run"
    /\ LET ran == run_with_limits(nix_unit, MAX_EXECUTION_TIME, timeout_cmd)
           captured == limit_output(ran.output, MAX_OUTPUT_LINES)
           failed == MapfileStatus(ran.status) # 0
           exit_code == 0
       IN  output_lines' =
               IF failed /\ exit_code \in {124, 143}
               THEN captured \o TimeoutLines(MAX_EXECUTION_TIME)
               ELSE captured
    /\ lines' = output_lines'
    /\ pc' = "loop"
    /\ UNCHANGED <<idx, current_tests, overall_reason, has_tests, module_id,
                   current_test_name, current_error_details, in_error_section>>
    /\ UNCHANGED <<saved, fileVars, envVars, argv, argi, shifted, PROJECT_ROOT,
                   PASSTHROUGH, TEST_FILE, TEST_ARGS, MAX_EXECUTION_TIME,
                   MAX_OUTPUT_LINES, line_count, exit_status>>
    /\ UNCHANGED <<lintVars, saveVars>>

-----------------------------------------------------------------------------
(* The whole script *)

\* What nix-unit prints, how long it runs and how it exits.
NixRun(output, seconds, status) ==
    [output |-> output, seconds |-> seconds, status |-> status]

NixOutputs ==
    { <<>>,
      << PassLine("testA"), SummaryLine("party", "1", "1") >>,
      << FailLine("testB"), LDetail1, SummaryLine("cry", "0", "1") >>,
      << LWarning, LError >>,
      << LDetail1, PassLine("testA"), PassLine("testC") >> }

\* Runs of one second and of ten: the second kind outlasts --timeout=5.
NixRuns ==
    { NixRun(out, s, IF \E i \in 1..Len(out) : out[i].status = "pass" THEN 0 ELSE 1) :
          out \in NixOutputs, s \in {1, 10} }

StdinInputs ==
    { <<>>,
      << PassLine("testA") >>,
      << PassLine("testA"), SummaryLine("party", "1", "1") >>,
      << FailLine("testB"), LDetail1, SummaryLine("cry", "0", "1") >> }

Environment(in, run, cmd, files) ==
    [stdin |-> in, nix_unit |-> run, timeout_cmd |-> cmd, cwd_files |-> files]

QuickRun == NixRun(<< PassLine("testA"), SummaryLine("party", "1", "1") >>, 1, 0)

\* The surroundings a run of the script can meet: what is on standard
\* input, what nix-unit does, which timeout command is installed, which
\* test files the current directory holds.
Environments ==
    { Environment(in, QuickRun, "timeout", {"tests.nix"}) : in \in StdinInputs }
        \cup { Environment(<<>>, run, "timeout", {"tests.nix"}) : run \in NixRuns }
        \cup { Environment(<<>>, NixRun(<< PassLine("testA") >>, 10, 0), cmd,
                           {"tests.nix", "test.nix"}) : cmd \in {"gtimeout", "none"} }
        \cup { Environment(<<>>, QuickRun, "timeout", files) :
                   files \in {{}, {"test.nix"}, {"test/tests.nix", "nix/tests.nix"},
                              {"nix/tests.nix"}} }

\* A document left by an earlier run.
OldDocument ==
    create_test_result(
        <<create_test_module("tests",
              <<create_test("testOld", FullName("tests", "testOld"),
                            "passed", <<>>)>>)>>,
        "passed")

\* The script started with any argument list in any of the environments,
\* in a project with or without an earlier test.json.
InitMain ==
    /\ argv \in ArgLists
    /\ \E env \in Environments :
           /\ stdin = env.stdin
           /\ nix_unit = env.nix_unit
           /\ timeout_cmd = env.timeout_cmd
           /\ cwd_files = env.cwd_files
    /\ previous \in {<<>>, <<OldDocument>>}
    /\ saved = previous
    /\ data_dir = (previous # <<>>)
    /\ temp_file = <<>>
    /\ json_output = <<>>
    /\ pc = "args"
    /\ argi = 1
    /\ shifted = 0
    /\ ScriptDefaults
    /\ output_lines = <<>>
    /\ line_count = 0
    /\ exit_status = <<>>
    /\ lines = <<>>
    /\ ParserLocals
    /\ NoLint
    /\ NoSavers

NextMain ==
    \/ ArgProjectRootEq
    \/ ArgProjectRoot
    \/ ArgPassthrough
    \/ ArgTestFileEq
    \/ ArgTimeoutEq
    \/ ArgMaxOutputEq
    \/ ArgHelp
    \/ ArgOther
    \/ EndArgs
    \/ Validate
    \/ ReadLine
    \/ EndRead
    \/ FindTest
    \/ RunNixUnit
    \/ Next

SpecMain == InitMain /\ [][NextMain]_vars

-----------------------------------------------------------------------------
(* save_test_results in two invocations with one project root *)

\* The documents the two invocations write: without test cases, and with
\* one.
ShortDocument == create_test_result(<<>>, "passed")

LongDocument ==
    create_test_result(
        <<create_test_module("tests",
              <<create_test("testA", FullName("tests", "testA"), "passed", <<>>)>>)>>,
        "passed")

SaverDocuments == { ShortDocument, LongDocument }

\* The length of the text of a document: a test case more is a longer
\* text.
Size(document) ==
    IF document.testModules = <<>> THEN 0
    ELSE Len(document.testModules[1].tests)

\* A file is what was written into it from offset 0, the latest first:
\* <<>> is the empty file, <<d>> the text of d, <<d, e>> the text of d
\* followed by the end of the longer text of e.
\* write(2) at offset 0 of a file that keeps what it held.
Overwrite(file, document) ==
    IF file = <<>> \/ Size(document) >= Size(file[Len(file)])
    THEN <<document>>
    ELSE <<document, file[Len(file)]>>

\* > "$temp_file" on a file that exists: open with O_TRUNC empties it.
Opened(file) == <<>>

Saver(position, document, fd, status) ==
    [pc |-> position, json_output |-> document, fd |-> fd, status |-> status]

\* Two invocations have parsed their output and enter save_test_results;
\* test.json of an earlier run may exist.
InitSave ==
    /\ savers \in [{1, 2} -> { Saver("mkdir", d, <<>>, <<>>) : d \in SaverDocuments }]
    /\ data_files \in
           { [inodes |-> <<>>, temp_file |-> <<>>, output_file |-> <<>>],
             [inodes |-> << <<OldDocument>> >>, temp_file |-> <<>>,
              output_file |-> <<1>>] }
    /\ pc = "save"
    /\ lines = <<>>
    /\ ParserLocals
    /\ saved = <<>>
    /\ json_output = <<>>
    /\ data_dir = FALSE
    /\ temp_file = <<>>
    /\ previous = <<>>
    /\ argv = <<>>
    /\ argi = 1
    /\ shifted = 0
    /\ ScriptDefaults
    /\ output_lines = <<>>
    /\ line_count = 0
    /\ exit_status = <<>>
    /\ stdin = <<>>
    /\ nix_unit = QuickRun
    /\ timeout_cmd = "timeout"
    /\ cwd_files = {}
    /\ NoLint

SaveUnchanged ==
    UNCHANGED <<parserVars, pc, saved, fileVars, mainVars, envVars, lintVars>>

\* mkdir -p "$data_dir"
SaverMakeDataDir ==
    /\ \E p \in DOMAIN savers :
           /\ savers[p].pc = "mkdir"
           /\ savers' = [savers EXCEPT ![p].pc = "redirect"]
    /\ UNCHANGED data_files
    /\ SaveUnchanged

\* > "$temp_file": the shell opens test.json.tmp for jq, creating it or
\* emptying the file the path names.
SaverOpenTempFile ==
    /\ \E p \in DOMAIN savers :
           /\ savers[p].pc = "redirect"
           /\ IF data_files.temp_file = <<>>
              THEN /\ data_files' =
                          [data_files EXCEPT
                              !.inodes = Append(@, <<>>),
                              !.temp_file = <<Len(data_files.inodes) + 1>>]
                   /\ savers' = [savers EXCEPT
                                    ![p].pc = "write",
                                    ![p].fd = <<Len(data_files.inodes) + 1>>]
              ELSE /\ data_files' =
                          [data_files EXCEPT
                              !.inodes[data_files.temp_file[1]] = Opened(@)]
                   /\ savers' = [savers EXCEPT
                                    ![p].pc = "write",
                                    ![p].fd = data_files.temp_file]
    /\ SaveUnchanged

\* echo "$json_output" | jq '.': jq writes the document to the file it
\* was given, whatever path names that file by now.
SaverWriteTempFile ==
    /\ \E p \in DOMAIN savers :
           /\ savers[p].pc = "write"
           /\ data_files' =
                  [data_files EXCEPT
                      !.inodes[savers[p].fd[1]] = Overwrite(@, savers[p].json_output)]
           /\ savers' = [savers EXCEPT ![p].pc = "mv"]
    /\ SaveUnchanged

\* mv "$temp_file" "$output_file": rename(2); without a test.json.tmp mv
\* fails and set -e ends the script with status 1.
SaverMoveTempFile ==
    /\ \E p \in DOMAIN savers :
           /\ savers[p].pc = "mv"
           /\ IF data_files.temp_file = <<>>
              THEN /\ savers' = [savers EXCEPT ![p].pc = "exit", ![p].status = <<1>>]
                   /\ UNCHANGED data_files
              ELSE /\ data_files' =
                          [data_files EXCEPT
                              !.output_file = data_files.temp_file,
                              !.temp_file = <<>>]
                   /\ savers' = [savers EXCEPT ![p].pc = "done", ![p].status = <<0>>]
    /\ SaveUnchanged

NextSave ==
    \/ SaverMakeDataDir
    \/ SaverOpenTempFile
    \/ SaverWriteTempFile
    \/ SaverMoveTempFile

SpecSave == InitSave /\ [][NextSave]_vars

-----------------------------------------------------------------------------
(* The linter adapters: Statix *)

\* Most files in a lint call, most lines on statix's stdout, most
\* diagnostics nixf-tidy prints for one file.
MaxFiles == 2
MaxStdoutLines == 2
MaxDiagnostics == 1

\* A suggestion note is its text, character after character; a run of
\* characters that holds no bracket, capital letter or digit may stand as
\* one piece.
Capital ==
    { "A", "B", "C", "D", "E", "F", "G", "H", "I", "J", "K", "L", "M",
      "N", "O", "P", "Q", "R", "S", "T", "U", "V", "W", "X", "Y", "Z" }

Digit == { "0", "1", "2", "3", "4", "5", "6", "7", "8", "9" }

StatixNotes ==
    [syntax |-> <<"[", "E", "0", "1", "]", " syntax error">>,
     inherit |-> <<"[", "W", "0", "4", "]", " ", "A", "ssignment instead of inherit">>,
     pattern |-> <<"F", "ound empty pattern">>,
     both |-> <<"[", "W", "2", "0", "]", " and ", "[", "W", "0", "3", "]">>,
     near |-> <<"see ", "[", "w", "1", "]", " ", "[", "W", "W", "1", "]", " ",
                "[", "W", "]", " ", "[", "1", "]", " ", "[", "W", "0", "4", "]">>]

Suggestion(from, to, note) == [at |-> [from |-> from, to |-> to], note |-> note]

StatixReport(file, kind, suggestions) ==
    [file |-> file, report_kind |-> kind, suggestions |-> suggestions]

\* A line of stdout: what JSON.parse makes of it.
\*   "report"    : an object with file, report_kind and suggestions
\*   "value"     : JSON that is no report (null, a number, {})
\*   "malformed" : JSON.parse throws
\*   "spaces"    : white space only (JSON.parse throws)
\*   "empty"     : the empty string
StdoutLine(json, value) == [json |-> json, value |-> value]

ReportLine(report) == StdoutLine("report", report)

StatixLines ==
    { ReportLine(StatixReport("a.nix", "error",
          <<Suggestion(0, 3, StatixNotes.syntax)>>)),
      ReportLine(StatixReport("b.nix", "warn",
          <<Suggestion(10, 20, StatixNotes.inherit),
            Suggestion(57, 60, StatixNotes.pattern)>>)),
      ReportLine(StatixReport("a.nix", "warn",
          <<Suggestion(4, 9, StatixNotes.both),
            Suggestion(30, 31, StatixNotes.near)>>)),
      StdoutLine("value", <<>>),
      StdoutLine("malformed", <<>>),
      StdoutLine("spaces", <<>>),
      StdoutLine("empty", <<>>) }

\* How the statix call ended: exit 0, or an error that carries (or not) a
\* stdout field.
StatixOutcome(failed, has_stdout, stdout) ==
    [failed |-> failed, has_stdout |-> has_stdout, stdout |-> stdout]

StatixOutcomes ==
    { StatixOutcome(failed, TRUE, out) :
          failed \in BOOLEAN, out \in SeqsUpTo(StatixLines, MaxStdoutLines) }
        \cup { StatixOutcome(TRUE, FALSE, <<>>) }

\* issues.filter((i) => i.severity === severity).length, replaced by the
\* length of the list.
countBySeverity_All(issue_list, severity) == Len(issue_list)

\* issues.filter((i) => i.severity === severity).length
countBySeverity(issue_list, severity) ==
    LET Has(i) == i.severity = severity
    IN  Len(SelectSeq(issue_list, Has))

\* /\[([A-Z]\d+)\]/ matches at position k with n digits.
MatchAt(message, k, n) ==
    /\ k + n + 2 <= Len(message)
    /\ message[k] = "["
    /\ message[k + 1] \in Capital
    /\ \A j \in 1..n : message[k + 1 + j] \in Digit
    /\ message[k + n + 2] = "]"

Matches(message) ==
    { k \in 1..Len(message) : \E n \in 1..Len(message) : MatchAt(message, k, n) }

\* The group of the match at position k.
Group(message, k) ==
    LET n == CHOOSE n \in 1..Len(message) : MatchAt(message, k, n)
    IN  SubSeq(message, k + 1, k + 1 + n)

\* The group of the last match in the place of the first.
extractRuleFromMessage_Last(message) ==
    IF Matches(message) = {} THEN <<>>
    ELSE <<Group(message, CHOOSE k \in Matches(message) :
                              \A j \in Matches(message) : j <= k)>>

\* message.match(/\[([A-Z]\d+)\]/)?.[1]: the group of the first match,
\* <<>> for undefined.
extractRuleFromMessage(message) ==
    IF Matches(message) = {} THEN <<>>
    ELSE <<Group(message, CHOOSE k \in Matches(message) :
                              \A j \in Matches(message) : k <= j)>>

toIssue(report, suggestion) ==
    [file |-> report.file,
     line |-> 1,
     column |-> suggestion.at.from,
     severity |-> IF report.report_kind = "error" THEN "error" ELSE "warning",
     message |-> suggestion.note,
     rule |-> extractRuleFromMessage(suggestion.note)]

\* String.prototype.trim on the whole output: the white-space lines at
\* both ends go.
RECURSIVE TrimLines(_)
TrimLines(out) ==
    IF out = <<>> THEN out
    ELSE IF Head(out).json \in {"empty", "spaces"} THEN TrimLines(Tail(out))
    ELSE IF out[Len(out)].json \in {"empty", "spaces"}
         THEN TrimLines(SubSeq(out, 1, Len(out) - 1))
    ELSE out

\* parseResults with the catch around each line: the lines JSON.parse
\* accepts.
parseResults_PerLine(stdout) ==
    LET Parsed(l) == l.json \in {"report", "value"}
    IN  SelectSeq(TrimLines(stdout), Parsed)

\* parseResults that keeps the lines parsed before the first one that
\* JSON.parse rejects.
parseResults_UntilError(stdout) ==
    LET NotEmpty(l) == l.json # "empty"
        kept == SelectSeq(TrimLines(stdout), NotEmpty)
        Bad == { k \in 1..Len(kept) : kept[k].json \in {"malformed", "spaces"} }
    IN  IF Bad = {} THEN kept
        ELSE SubSeq(kept, 1, (CHOOSE k \in Bad : \A j \in Bad : k <= j) - 1)

\* parseResults: [] for a blank output; the parsed lines, or [] when
\* JSON.parse throws on any of them.
parseResults(stdout) ==
    LET NotEmpty(l) == l.json # "empty"
        kept == SelectSeq(TrimLines(stdout), NotEmpty)
    IN  IF \E k \in 1..Len(kept) : kept[k].json \in {"malformed", "spaces"}
        THEN <<>>
        ELSE kept

\* results.flatMap(report => report.suggestions.map(...))
RECURSIVE extractIssues(_)
extractIssues(results) ==
    IF results = <<>> THEN <<>>
    ELSE [k \in 1..Len(Head(results).value.suggestions) |->
              toIssue(Head(results).value, Head(results).value.suggestions[k])]
             \o extractIssues(Tail(results))

\* report.suggestions.map throws a TypeError on a value without suggestions.
ExtractThrows(results) ==
    \E k \in 1..Len(results) : results[k].json # "report"

LintResult(files, issue_list) ==
    [files |-> files,
     issues |-> issue_list,
     errorCount |-> countBySeverity(issue_list, "error"),
     warningCount |-> countBySeverity(issue_list, "warning")]

createLintData(files, results) == LintResult(files, extractIssues(results))

Resolved(result) == [settled |-> "resolved", value |-> result]
Rejected(error) == [settled |-> "rejected", error |-> error]

\* How the promise of Statix.lint settles.
StatixSettles(files, outcome) ==
    IF ~outcome.failed THEN Resolved(createLintData(files, <<>>))
    ELSE IF ~outcome.has_stdout THEN Rejected("statix error")
    ELSE IF ExtractThrows(parseResults(outcome.stdout)) THEN Rejected("TypeError")
    ELSE Resolved(createLintData(files, parseResults(outcome.stdout)))

-----------------------------------------------------------------------------
(* The linter adapters: NixfTidy *)

\* A diagnostic of nixf-tidy; message is the text cut at its {} placeholders.
Diagnostic(line, column, severity, message, args, sname) ==
    [range |-> [lCur |-> [line |-> line, column |-> column]],
     severity |-> severity, message |-> message, args |-> args,
     sname |-> sname]

NixfDiagnostics ==
    { Diagnostic(0, 4, 2, <<"unused binding ", "{}">>, <<"x">>, "sema-unused-def-let"),
      Diagnostic(0, 0, 1, <<"expected ", "{}", " after ", "{}">>, <<"{}", ";">>,
                 "parse-expected"),
      Diagnostic(2, 7, 0, <<"unexpected text">>, <<>>, "parse-unexpected") }

\* Diagnostics of the two lowest native severities, info and hint.
NixfNotices ==
    { Diagnostic(1, 2, 3, <<"info">>, <<>>, "info-rule"),
      Diagnostic(3, 0, 4, <<"hint">>, <<>>, "hint-rule") }

\* What the child wrote on stdout: nothing, a JSON array of diagnostics, a
\* single JSON object, or text JSON.parse throws on.
NixfStdout(json, diagnostics) == [json |-> json, diagnostics |-> diagnostics]

\* What happens to one lintFile call: the child closes with a code, with or
\* without text on stderr; spawn fails (error event); the file cannot be
\* read.
NixfOutcome(event, code, stderr, stdout) ==
    [event |-> event, code |-> code, stderr |-> stderr, stdout |-> stdout]

NixfOutcomes ==
    { NixfOutcome("close", 0, FALSE, NixfStdout("array", ds)) :
          ds \in SeqsUpTo(NixfDiagnostics, MaxDiagnostics) }
        \cup { NixfOutcome("close", 0, FALSE, NixfStdout("object", <<d>>)) :
                   d \in NixfDiagnostics }
        \cup { NixfOutcome("close", 0, FALSE, NixfStdout("array", <<d>>)) :
                   d \in NixfNotices }
        \cup { NixfOutcome("close", 0, FALSE, NixfStdout("empty", <<>>)),
               NixfOutcome("close", 0, FALSE, NixfStdout("malformed", <<>>)),
               NixfOutcome("close", 1, FALSE,
                   NixfStdout("array", <<Diagnostic(0, 4, 2, <<"unused binding ", "{}">>,
                                                    <<"x">>, "sema-unused-def-let")>>)),
               NixfOutcome("close", 1, TRUE,
                   NixfStdout("array", <<Diagnostic(2, 7, 0, <<"unexpected text">>,
                                                    <<>>, "parse-unexpected")>>)),
               NixfOutcome("close", 0, TRUE, NixfStdout("empty", <<>>)),
               NixfOutcome("error", 0, FALSE, NixfStdout("empty", <<>>)),
               NixfOutcome("read-failure", 0, FALSE, NixfStdout("empty", <<>>)) }

\* The conversion with < in the place of <=.
convertSeverity_Strict(nixfSeverity) == IF nixfSeverity < 1 THEN "error" ELSE "warning"

\* nixfSeverity <= 1 ? 'error' : 'warning'
convertSeverity(nixfSeverity) == IF nixfSeverity <= 1 THEN "error" ELSE "warning"

\* What String.prototype.replace inserts for a replacement string: $& is
\* the matched text, $$ a dollar sign.
Replacement(arg) ==
    IF arg = "$&" THEN "{}" ELSE IF arg = "$$" THEN "$" ELSE arg

\* message.replace('{}', arg): the first placeholder, when there is one.
ReplaceFirst(message, arg) ==
    IF \E k \in 1..Len(message) : message[k] = "{}"
    THEN LET first == CHOOSE k \in 1..Len(message) :
                          /\ message[k] = "{}"
                          /\ \A j \in 1..(k - 1) : message[j] # "{}"
         IN  [message EXCEPT ![first] = Replacement(arg)]
    ELSE message

RECURSIVE ReplaceAll(_, _)
ReplaceAll(message, args) ==
    IF args = <<>> THEN message
    ELSE ReplaceAll(ReplaceFirst(message, Head(args)), Tail(args))

formatMessage(diagnostic) == ReplaceAll(diagnostic.message, diagnostic.args)

\* The conversion that keeps the native 0-based position.
convertDiagnosticsToIssues_Native(filePath, diagnostics) ==
    [k \in 1..Len(diagnostics) |->
        [file |-> filePath,
         line |-> diagnostics[k].range.lCur.line,
         column |-> diagnostics[k].range.lCur.column,
         severity |-> convertSeverity(diagnostics[k].severity),
         message |-> formatMessage(diagnostics[k]),
         rule |-> diagnostics[k].sname]]

convertDiagnosticsToIssues(filePath, diagnostics) ==
    [k \in 1..Len(diagnostics) |->
        [file |-> filePath,
         line |-> diagnostics[k].range.lCur.line + 1,
         column |-> diagnostics[k].range.lCur.column + 1,
         severity |-> convertSeverity(diagnostics[k].severity),
         message |-> formatMessage(diagnostics[k]),
         rule |-> diagnostics[k].sname]]

\* lintFile rejects: read failure, error event, close with a non-zero code
\* and text on stderr, or output JSON.parse throws on.
LintFileRejects(outcome) ==
    \/ outcome.event \in {"read-failure", "error"}
    \/ outcome.code # 0 /\ outcome.stderr
    \/ outcome.stdout.json = "malformed"

\* The diagnostics lintFile resolves to: [] for an empty output, the array,
\* or the single object in an array.
LintFileDiagnostics(outcome) ==
    IF outcome.stdout.json = "empty" THEN <<>> ELSE outcome.stdout.diagnostics

\* The loop body in which a rejection of lintFile empties the list.
IssuesAfter_Reset(issue_list, filePath, outcome) ==
    IF LintFileRejects(outcome) THEN <<>>
    ELSE issue_list \o convertDiagnosticsToIssues(filePath,
                                                  LintFileDiagnostics(outcome))

\* The body of the loop of lint: the issues of the file are pushed; a
\* rejection of lintFile is caught and leaves the list as it is.
IssuesAfter(issue_list, filePath, outcome) ==
    IF LintFileRejects(outcome) THEN issue_list
    ELSE issue_list \o convertDiagnosticsToIssues(filePath,
                                                  LintFileDiagnostics(outcome))

-----------------------------------------------------------------------------
(* The linter adapters as a state machine *)

FileLists == SeqsUpTo({"a.nix", "b.nix"}, MaxFiles)

\* new Config({ linterType }): linterType is undefined (<<>>) or a string.
Config(linterType) == [linterType |-> linterType]

LinterTypes ==
    { <<>>, <<"eslint">>, <<"golangci-lint">>, <<"statix">>, <<"nixf-tidy">>,
      <<"unknown-linter">>, <<"ESLint">>, <<"nixf">>, <<"">> }

\* getLinter with an adapter in the default branch.
getLinter_Default(actualConfig) ==
    IF actualConfig.linterType = <<"eslint">> THEN "ESLint"
    ELSE IF actualConfig.linterType = <<"golangci-lint">> THEN "GolangciLint"
    ELSE IF actualConfig.linterType = <<"statix">> THEN "Statix"
    ELSE IF actualConfig.linterType = <<"nixf-tidy">> THEN "NixfTidy"
    ELSE IF actualConfig.linterType = <<>> THEN "null"
    ELSE "ESLint"

\* LinterProvider.getLinter: the switch over actualConfig.linterType; the
\* result is the class of the adapter, or "null".
getLinter(actualConfig) ==
    IF actualConfig.linterType = <<"eslint">> THEN "ESLint"
    ELSE IF actualConfig.linterType = <<"golangci-lint">> THEN "GolangciLint"
    ELSE IF actualConfig.linterType = <<"statix">> THEN "Statix"
    ELSE IF actualConfig.linterType = <<"nixf-tidy">> THEN "NixfTidy"
    ELSE IF actualConfig.linterType = <<>> THEN "null"
    ELSE "null"

\* A configuration is in force (config ?? new Config()) and a list of
\* files is to be linted.
InitLint ==
    /\ config \in { Config(t) : t \in LinterTypes }
    /\ linter = "none"
    /\ filePaths \in FileLists
    /\ file_index = 1
    /\ issues = <<>>
    /\ tool_outcomes = <<>>
    /\ lint_result = <<>>
    /\ children = <<>>
    /\ NoSavers
    /\ pc = "provider"
    /\ lines = <<>>
    /\ ParserLocals
    /\ saved = <<>>
    /\ json_output = <<>>
    /\ data_dir = FALSE
    /\ temp_file = <<>>
    /\ previous = <<>>
    /\ argv = <<>>
    /\ argi = 1
    /\ shifted = 0
    /\ ScriptDefaults
    /\ output_lines = <<>>
    /\ line_count = 0
    /\ exit_status = <<>>
    /\ stdin = <<>>
    /\ nix_unit = QuickRun
    /\ timeout_cmd = "timeout"
    /\ cwd_files = {}

\* LinterProvider.getLinter, and then linter.lint(filePaths) when there
\* is a linter.
GetLinter ==
    /\ pc = "provider"
    /\ linter' = getLinter(config)
    /\ pc' = IF linter' = "null" THEN "skipped" ELSE "lint"
    /\ UNCHANGED <<config, filePaths, file_index, issues, tool_outcomes,
                   lint_result, children>>
    /\ UNCHANGED <<parserVars, saved, fileVars, mainVars, envVars, saveVars>>

\* Statix.lint: one statix call over all files, then the result.
StatixLint ==
    /\ pc = "lint"
    /\ linter = "Statix"
    /\ \E outcome \in StatixOutcomes :
           /\ tool_outcomes' = <<outcome>>
           /\ lint_result' = <<StatixSettles(filePaths, outcome)>>
    /\ pc' = "settled"
    /\ UNCHANGED <<config, linter, filePaths, file_index, issues, children>>
    /\ UNCHANGED <<parserVars, saved, fileVars, mainVars, envVars, saveVars>>

\* A lintFile call: the promise (<<>> while pending, else the event that
\* settled it) and the child process: "running", "failed" (the error
\* event was emitted, close is still to come), "killed" (process.kill()
\* after the read failure, close is still to come) or "closed".
Child(promise, process) == [promise |-> promise, process |-> process]

ReadFailure == NixfOutcome("read-failure", 0, FALSE, NixfStdout("empty", <<>>))

SpawnError == NixfOutcome("error", 0, FALSE, NixfStdout("empty", <<>>))

\* The close event of a child that was killed or never started: no exit
\* code 0, nothing on stdout or stderr.
LastClose == NixfOutcome("close", 1, FALSE, NixfStdout("empty", <<>>))

\* resolve / reject of a promise on which a later call wins.
Settle_LastWins(promise, outcome) == <<outcome>>

\* resolve(...) or reject(...) called for an event: the first call settles
\* the promise, a call on a settled promise does nothing.
Settle(promise, outcome) == IF promise = <<>> THEN <<outcome>> ELSE promise

\* The loop calls lintFile while it is suspended in an await, too.
MaySpawn_WhileAwaiting(position) == position \in {"lint", "await"}

\* `for (const filePath of filePaths) { ... await this.lintFile(filePath)`:
\* lintFile is called at the top of a turn of the loop only.
MaySpawn(position) == position = "lint"

\* NixfTidy.lint enters lintFile: the child is spawned, the handlers are
\* registered, the file is read and written to the child's stdin; when
\* the read fails the child is killed and the promise rejected.  The
\* loop awaits the promise.
NixfSpawn ==
    /\ MaySpawn(pc)
    /\ linter = "NixfTidy"
    /\ file_index <= Len(filePaths)
    /\ \E readable \in BOOLEAN :
           children' = Append(children,
                              IF readable THEN Child(<<>>, "running")
                              ELSE Child(Settle(<<>>, ReadFailure), "killed"))
    /\ pc' = "await"
    /\ UNCHANGED <<config, linter, filePaths, file_index, issues, tool_outcomes,
                   lint_result>>
    /\ UNCHANGED <<parserVars, saved, fileVars, mainVars, envVars, saveVars>>

\* A child emits an event and its handler runs: error (spawn failed; the
\* close event follows), or close with what the child wrote.
NixfEvent ==
    /\ linter = "NixfTidy"
    /\ \E k \in 1..Len(children) :
           \/ /\ children[k].process = "running"
              /\ children' = [children EXCEPT ![k] =
                     Child(Settle(children[k].promise, SpawnError), "failed")]
           \/ /\ children[k].process = "running"
              /\ \E outcome \in { o \in NixfOutcomes : o.event = "close" } :
                     children' = [children EXCEPT ![k] =
                         Child(Settle(children[k].promise, outcome), "closed")]
           \/ /\ children[k].process \in {"failed", "killed"}
              /\ children' = [children EXCEPT ![k] =
                     Child(Settle(children[k].promise, LastClose), "closed")]
    /\ UNCHANGED <<config, linter, filePaths, file_index, issues, tool_outcomes,
                   lint_result, pc>>
    /\ UNCHANGED <<parserVars, saved, fileVars, mainVars, envVars, saveVars>>

\* The awaited promise is settled and the loop goes on: the issues of the
\* file are pushed; a rejection is logged and skipped.
NixfResume ==
    /\ pc = "await"
    /\ linter = "NixfTidy"
    /\ children[Len(children)].promise # <<>>
    /\ LET outcome == children[Len(children)].promise[1]
       IN  /\ tool_outcomes' = Append(tool_outcomes, outcome)
           /\ issues' = IssuesAfter(issues, filePaths[file_index], outcome)
    /\ file_index' = file_index + 1
    /\ pc' = "lint"
    /\ UNCHANGED <<config, linter, filePaths, lint_result, children>>
    /\ UNCHANGED <<parserVars, saved, fileVars, mainVars, envVars, saveVars>>

\* NixfTidy.lint after the loop: the result.
NixfReturn ==
    /\ pc = "lint"
    /\ linter = "NixfTidy"
    /\ file_index > Len(filePaths)
    /\ lint_result' = <<Resolved(LintResult(filePaths, issues))>>
    /\ pc' = "settled"
    /\ UNCHANGED <<config, linter, filePaths, file_index, issues, tool_outcomes,
                   children>>
    /\ UNCHANGED <<parserVars, saved, fileVars, mainVars, envVars, saveVars>>

NextLint ==
    \/ GetLinter
    \/ StatixLint
    \/ NixfSpawn
    \/ NixfEvent
    \/ NixfResume
    \/ NixfReturn

SpecLint == InitLint /\ [][NextLint]_vars

\* The event loop runs every continuation that is ready, and every child
\* that was spawned emits its events.
SpecLintFair ==
    /\ SpecLint
    /\ WF_vars(GetLinter)
    /\ WF_vars(NixfSpawn)
    /\ WF_vars(NixfEvent)
    /\ WF_vars(NixfResume)
    /\ WF_vars(NixfReturn)

-----------------------------------------------------------------------------
(* Reading the written document *)

Done == pc = "done"

\* The document in test.json.
Doc == saved[1]

\* The test cases of a document, module after module.
RECURSIVE TestsOfModules(_)
TestsOfModules(mods) ==
    IF mods = <<>> THEN <<>>
    ELSE Head(mods).tests \o TestsOfModules(Tail(mods))

DocTests == TestsOfModules(Doc.testModules)

HasFailedTest == \E k \in 1..Len(DocTests) : DocTests[k].state = "failed"

HasUnhandledErrors ==
    "unhandledErrors" \in DOMAIN Doc /\ Len(Doc.unhandledErrors) > 0

IsSynthetic(t) ==
    t.name = "evaluation" /\ t.fullName = <<"compilation", ".", "evaluation">>

HasSyntheticTest == \E k \in 1..Len(DocTests) : IsSynthetic(DocTests[k])

\* A piece of a message is the given text.
Contains(message, text) == \E k \in 1..Len(message) : message[k] = text

\* What a line of the input is, by its text alone.
IsStatusLine(l)  == ~l.blank /\ ~l.warning /\ l.status # "none"
IsSummaryLine(l) == ~l.blank /\ ~l.warning /\ l.status = "none" /\ l.summary # "none"
IsBadSummary(l)  == IsSummaryLine(l) /\ (l.summary = "cry" \/ l.passed # l.total)
IsErrorLine(l)   ==
    ~l.blank /\ ~l.warning /\ l.status = "none" /\ l.summary = "none" /\ l.error

NoStatusLines == \A i \in 1..Len(lines) : ~IsStatusLine(lines[i])

\* The passed test case the document holds for a pass line.
PassedCase(l) ==
    [name |-> l.name, fullName |-> <<"tests", ".", l.name>>, state |-> "passed"]

-----------------------------------------------------------------------------
(* Claims *)

\* C1: a written document that holds a test case with state failed (a real
\* one or the synthetic evaluation test) has reason failed.
C1_FailedTestMeansFailed ==
    Done => (HasFailedTest => Doc.reason = "failed")

\* C1 witness: a document with a failed real test and one with the failed
\* synthetic test exist; here the real one, closed by the end of the input.
C1_Witness ==
    /\ Done
    /\ \E k \in 1..Len(DocTests) :
           DocTests[k].state = "failed" /\ DocTests[k].name = "testB"
    /\ Doc.reason = "failed"

\* C2 as stated: reason is failed exactly when a test case failed, or
\* unhandledErrors is non-empty, or the synthetic test was produced.
C2_ReasonIffFailedTest ==
    Done => (Doc.reason = "failed"
                <=> (HasFailedTest \/ HasUnhandledErrors \/ HasSyntheticTest))

\* C2 amended: reason is failed exactly when a test case failed, or
\* unhandledErrors is non-empty, or the synthetic test was produced, or the
\* input holds a summary line with the sad glyph or with P written
\* differently from T, or the input holds an error-pattern line that is not
\* a warning, a status or a summary line; otherwise it is passed.
C2_ReasonIffFailedTestOrSummaryOrError ==
    Done => /\ Doc.reason \in {"passed", "failed"}
            /\ Doc.reason = "failed"
                 <=> \/ HasFailedTest
                     \/ HasUnhandledErrors
                     \/ HasSyntheticTest
                     \/ \E i \in 1..Len(lines) : IsBadSummary(lines[i])
                     \/ \E i \in 1..Len(lines) : IsErrorLine(lines[i])

\* C2 witness: every test passed and the summary line alone fails the run.
C2_Witness ==
    /\ Done
    /\ Doc.reason = "failed"
    /\ ~HasFailedTest
    /\ Len(DocTests) > 0
    /\ \E i \in 1..Len(lines) :
           IsBadSummary(lines[i]) /\ lines[i].summary = "party"

\* The input of C3: pass lines, blank lines, warning lines and exactly one
\* summary line with the party glyph and P = T, with at least one pass line.
C3_Input ==
    /\ \A i \in 1..Len(lines) :
           \/ lines[i].blank
           \/ lines[i].warning
           \/ IsStatusLine(lines[i]) /\ lines[i].status = "pass"
           \/ IsSummaryLine(lines[i]) /\ lines[i].summary = "party"
                  /\ lines[i].passed = lines[i].total
    /\ Cardinality({i \in 1..Len(lines) : IsSummaryLine(lines[i])}) = 1
    /\ \E i \in 1..Len(lines) : IsStatusLine(lines[i])

\* C3: for such an input the document is one module `tests`, holding one
\* passed test case without an errors field per pass line, in the order of
\* the pass lines, and reason is passed.
C3_AllPassing ==
    (Done /\ C3_Input) =>
        LET pass == SelectSeq(lines, IsStatusLine)
        IN  /\ Len(Doc.testModules) = 1
            /\ Doc.testModules[1].moduleId = "tests"
            /\ Len(Doc.testModules[1].tests) = Len(pass)
            /\ \A k \in 1..Len(pass) :
                   /\ Doc.testModules[1].tests[k] = PassedCase(pass[k])
                   /\ "errors" \notin DOMAIN Doc.testModules[1].tests[k]
            /\ Doc.reason = "passed"

\* C3 witness: the passing self-test input, parsed to four test cases.
C3_Witness ==
    /\ Done
    /\ C3_Input
    /\ lines = passing_output
    /\ Len(DocTests) = 4

\* C4: the five-line example yields testA passed, and testB failed with the
\* single message detail1, newline, detail2, and reason failed.
C4_Example ==
    (Done /\ lines = ExampleInput) =>
        /\ DocTests =
              << [name |-> "testA", fullName |-> <<"tests", ".", "testA">>,
                  state |-> "passed"],
                 [name |-> "testB", fullName |-> <<"tests", ".", "testB">>,
                  state |-> "failed",
                  errors |-> <<[message |-> <<"detail1", Newline, "detail2">>]>>] >>
        /\ Doc.reason = "failed"

\* C5: a summary line met while error detail is being collected ends the
\* collection: it is not added to the detail, and the parser is scanning
\* again after it.
C5_SummaryEndsCollection ==
    [][ (InLoop /\ in_error_section = TRUE /\ IsSummaryLine(lines[idx]))
          => /\ in_error_section' = FALSE
             /\ ~Contains(current_error_details', lines[idx].clean) ]_vars

\* C6: every failed test case written for a fail line carries exactly one
\* error record, with a message that is not empty (the collected detail, or
\* `Test failed`), whether a status line or the end of the input closed it.
C6_OneErrorRecord ==
    Done => \A k \in 1..Len(DocTests) :
                (DocTests[k].state = "failed" /\ ~IsSynthetic(DocTests[k]))
                    => /\ "errors" \in DOMAIN DocTests[k]
                       /\ Len(DocTests[k].errors) = 1
                       /\ DocTests[k].errors[1].message # <<>>

\* C7: an input that holds a summary line with the sad glyph, or with P
\* different from T, gives reason failed, wherever the line stands.
C7_BadSummaryMeansFailed ==
    Done => ((\E i \in 1..Len(lines) : IsBadSummary(lines[i]))
                => Doc.reason = "failed")

\* C7 witness: the sad glyph with equal counts fails a run whose tests all
\* passed.
C7_Witness ==
    /\ Done
    /\ \E i \in 1..Len(lines) :
           /\ IsBadSummary(lines[i])
           /\ lines[i].summary = "cry"
           /\ lines[i].passed = lines[i].total
    /\ \E k \in 1..Len(DocTests) : DocTests[k].state = "passed"
    /\ ~HasFailedTest
    /\ Doc.reason = "failed"

\* C8: an input without status lines that holds a line matching the error
\* pattern gives exactly one module `compilation` with exactly one test
\* case `evaluation`, failed, whose single message contains a matching
\* line, and reason failed.
C8_EvaluationError ==
    (Done /\ NoStatusLines /\ \E i \in 1..Len(lines) : lines[i].error) =>
        /\ Len(Doc.testModules) = 1
        /\ Doc.testModules[1].moduleId = "compilation"
        /\ Len(Doc.testModules[1].tests) = 1
        /\ LET t == Doc.testModules[1].tests[1]
           IN  /\ t.name = "evaluation"
               /\ t.fullName = <<"compilation", ".", "evaluation">>
               /\ t.state = "failed"
               /\ "errors" \in DOMAIN t
               /\ Len(t.errors) = 1
               /\ \E i \in 1..Len(lines) :
                      lines[i].error /\ Contains(t.errors[1].message, lines[i].text)
        /\ Doc.reason = "failed"

\* C8 witness: the evaluation-error self-test input; the message is its
\* first line.
C8_Witness ==
    /\ Done
    /\ lines = error_output
    /\ DocTests[1].errors[1].message = <<error_output[1].text>>

\* The lines joined in order by one newline between neighbours.
RECURSIVE JoinLines(_)
JoinLines(ls) ==
    IF ls = <<>> THEN <<>>
    ELSE (IF Head(ls).text = "" THEN <<>> ELSE <<Head(ls).text>>)
             \o (IF Tail(ls) = <<>> THEN <<>> ELSE <<Newline>>)
             \o JoinLines(Tail(ls))

\* The position of the last line that is not the empty string (0: none).
LastNonEmpty(ls) ==
    LET S == {i \in 1..Len(ls) : ls[i].text # ""}
    IN  IF S = {} THEN 0 ELSE CHOOSE i \in S : \A j \in S : j <= i

\* The input of C9: not empty, no status line, no error line.
C9_Input ==
    /\ Len(lines) > 0
    /\ NoStatusLines
    /\ \A i \in 1..Len(lines) : ~IsErrorLine(lines[i])

\* The document with the single synthetic failure carrying `message`.
FoldedDocument(message) ==
    [testModules |->
        << [moduleId |-> "compilation",
            tests |-> << [name |-> "evaluation",
                          fullName |-> <<"compilation", ".", "evaluation">>,
                          state |-> "failed",
                          errors |-> <<[message |-> message]>>] >>] >>,
     reason |-> "failed"]

\* C9 as stated: such an input is folded into the synthetic failure whose
\* message is all input lines joined in order, and no non-empty input gives
\* a document without modules.
C9_FoldAllLines ==
    Done => /\ C9_Input => Doc = FoldedDocument(JoinLines(lines))
            /\ Len(lines) > 0 => Len(Doc.testModules) > 0

\* C9 amended: such an input is folded into the synthetic failure whose
\* message is the input lines up to the last non-empty one, joined in order
\* by newlines (trailing empty lines leave nothing in it), and no non-empty
\* input gives a document without modules.
C9_FoldLinesUpToLastNonEmpty ==
    Done => /\ C9_Input =>
                Doc = FoldedDocument(
                          JoinLines(SubSeq(lines, 1, LastNonEmpty(lines))))
            /\ Len(lines) > 0 => Len(Doc.testModules) > 0

\* C9 witness: a folded input that holds a warning line and ends with an
\* empty line.
C9_Witness ==
    /\ Done
    /\ C9_Input
    /\ Len(lines) = 3
    /\ lines[1].warning
    /\ lines[2].text = "detail1"
    /\ lines[3].text = ""
    /\ Doc.testModules[1].tests[1].errors[1].message =
           <<lines[1].text, Newline, "detail1">>

\* C10: a warning line is never test or error content: its text is in no
\* error message of the document, and an input made only of warning lines
\* gives the document of the input without them, the empty input.
C10_WarningsSkipped ==
    Done => /\ \A k \in 1..Len(DocTests) :
                 "errors" \in DOMAIN DocTests[k] =>
                     \A e \in 1..Len(DocTests[k].errors) :
                         \A i \in 1..Len(lines) :
                             lines[i].warning =>
                                 ~Contains(DocTests[k].errors[e].message,
                                           lines[i].text)
            /\ (\A i \in 1..Len(lines) : lines[i].warning)
                 => Doc = [testModules |-> <<>>, reason |-> "passed"]


-----------------------------------------------------------------------------
(* Reading a run of the script *)

Exited == exit_status # <<>>

\* The argument loop ran to its end.
ArgsCompleted == pc # "args" /\ argi > Len(argv)

PositiveInteger(n) == AllDigits(n) /\ Number[n] > 0

\* The configuration the script holds is the one the documentation asks for.
ConfigValid ==
    /\ PROJECT_ROOT # ""
    /\ IsAbsolute(PROJECT_ROOT)
    /\ IsDirectory(PROJECT_ROOT)
    /\ PositiveInteger(MAX_EXECUTION_TIME)
    /\ PositiveInteger(MAX_OUTPUT_LINES)

WellFormed(document) ==
    /\ DOMAIN document = {"testModules", "reason"}
    /\ document.reason \in {"passed", "failed"}

InSeq(x, seq) == \E k \in 1..Len(seq) : seq[k] = x

\* The positions of a flag written as a word of its own, the positions
\* where a value that is no flag follows it, and the positions of its
\* --flag=value form.
FlagPositions(flag) == { i \in 1..Len(argv) : argv[i].text = flag }

WordPositions(flag) ==
    { i \in FlagPositions(flag) : i < Len(argv) /\ argv[i + 1].branch = "*" }

EqPositions(branch) == { i \in 1..Len(argv) : argv[i].branch = branch }

NoHelp == \A i \in 1..Len(argv) : argv[i].branch # "--help"

\* C11: a validated passthrough invocation that has ended has written a
\* well-formed document to test.json and has exit status 0, whatever was on
\* standard input.
C11_PassthroughSavesAndExitsZero ==
    (ArgsCompleted /\ ConfigValid /\ PASSTHROUGH = TRUE /\ Exited)
        => /\ exit_status = <<0>>
           /\ json_output # <<>>
           /\ saved = json_output
           /\ WellFormed(saved[1])

\* C12: for an argument list with `--project-root P` as two arguments (one
\* such pair, no --project-root=, no --help), once the loop is left it has
\* taken every argument, PROJECT_ROOT is P, every --passthrough has set
\* PASSTHROUGH, and P is not among the extra arguments.
C12_SpaceSeparatedProjectRoot ==
    \A i \in WordPositions("--project-root") :
        (/\ FlagPositions("--project-root") = {i}
         /\ EqPositions("--project-root=*") = {}
         /\ NoHelp
         /\ pc # "args")
            => /\ argi > Len(argv)
               /\ PROJECT_ROOT = argv[i + 1].text
               /\ (EqPositions("--passthrough") # {} => PASSTHROUGH = TRUE)
               /\ ~InSeq(argv[i + 1].text, TEST_ARGS)

\* The variable a flag sets.
Setting(flag) ==
    CASE flag = "--test-file" -> TEST_FILE
      [] flag = "--timeout" -> MAX_EXECUTION_TIME
      [] flag = "--max-output" -> MAX_OUTPUT_LINES

EqBranch(flag) ==
    CASE flag = "--test-file" -> "--test-file=*"
      [] flag = "--timeout" -> "--timeout=*"
      [] flag = "--max-output" -> "--max-output=*"

\* C13: for an argument list with --project-root=P and one of --test-file,
\* --timeout, --max-output followed by its value as a separate argument
\* (once, without its = form, without --help), once the loop is left the
\* variable of the flag holds the value and the value is not among the
\* extra arguments.
C13_SpaceSeparatedValues ==
    \A flag \in {"--test-file", "--timeout", "--max-output"} :
        \A i \in WordPositions(flag) :
            (/\ FlagPositions(flag) = {i}
             /\ EqPositions(EqBranch(flag)) = {}
             /\ FlagPositions("--project-root") = {}
             /\ NoHelp
             /\ pc # "args")
                => /\ Setting(flag) = argv[i + 1].text
                   /\ ~InSeq(argv[i + 1].text, TEST_ARGS)

\* The value the argument list gives a setting: that of the last place
\* where the flag is written, in either form; the default without one.
Requested(flag, branch, default) ==
    LET places == WordPositions(flag) \cup EqPositions(branch)
    IN  IF places = {} THEN default
        ELSE LET last == CHOOSE i \in places : \A j \in places : j <= i
             IN  IF argv[last].branch = branch
                 THEN argv[last].value
                 ELSE argv[last + 1].text

RequestedRoot == Requested("--project-root", "--project-root=*", "")
RequestedTimeout == Requested("--timeout", "--timeout=*", "300")
RequestedMaxOutput == Requested("--max-output", "--max-output=*", "10000")

RequestedInvalid ==
    \/ RequestedRoot = ""
    \/ ~IsAbsolute(RequestedRoot)
    \/ ~IsDirectory(RequestedRoot)
    \/ ~PositiveInteger(RequestedTimeout)
    \/ ~PositiveInteger(RequestedMaxOutput)

\* C14: when the argument list (without --help) gives no project root, one
\* that is not absolute or not an existing directory, or a timeout or a
\* max-output that is not a positive integer, the script never gets past
\* its validation: it reads no test output, test.json and its directory
\* stay as they were, and its exit status is not 0.
C14_InvalidConfigurationRejected ==
    (NoHelp /\ RequestedInvalid)
        => /\ pc \in {"args", "validate", "exit"}
           /\ output_lines = <<>>
           /\ saved = previous
           /\ temp_file = <<>>
           /\ data_dir = (previous # <<>>)
           /\ (Exited => exit_status # <<0>>)

\* The parser has been entered.
Parsing == pc \in {"loop", "mkdir", "redirect", "write", "mv", "done"}

\* A failed test case of the document carries the text in a message.
FailedWithMessage(text) ==
    \E k \in 1..Len(DocTests) :
        /\ DocTests[k].state = "failed"
        /\ "errors" \in DOMAIN DocTests[k]
        /\ \E e \in 1..Len(DocTests[k].errors) :
               Contains(DocTests[k].errors[e].message, text)

\* C15: when nix-unit runs longer than the timeout (with timeout or
\* gtimeout installed), the written document has reason failed and a failed
\* test case whose message holds "timed out after <N> seconds".
C15_TimeoutDiagnosed ==
    (/\ Done
     /\ PASSTHROUGH = FALSE
     /\ timeout_cmd # "none"
     /\ nix_unit.seconds > Number[MAX_EXECUTION_TIME])
        => /\ Doc.reason = "failed"
           /\ FailedWithMessage(TimeoutLines(MAX_EXECUTION_TIME)[1].text)

\* C16: when the output (standard input in passthrough mode, what nix-unit
\* printed in run mode) has more lines than the cap L, the parser is given
\* its first L lines and then the truncation warning, L + 1 entries.
C16_TruncationWarningAppended ==
    LET source == IF PASSTHROUGH = TRUE THEN stdin ELSE nix_unit.output
    IN  (Parsing /\ Len(source) > Number[MAX_OUTPUT_LINES])
            => lines = SubSeq(source, 1, Number[MAX_OUTPUT_LINES])
                           \o <<TruncationWarning>>

\* C17: at every step test.json is absent or holds the whole earlier
\* document (as it was before the run) or holds the whole new document;
\* when mv runs the temp file holds the whole new document; the data
\* directory exists from mkdir on.
C17_ReaderSeesWholeDocument ==
    /\ saved = previous \/ (json_output # <<>> /\ saved = json_output)
    /\ \A k \in 1..Len(saved) : WellFormed(saved[k])
    /\ pc = "mv" => temp_file = json_output
    /\ pc \in {"redirect", "write", "mv", "done"} => data_dir = TRUE

\* C17 witness: the run has replaced an earlier document by a different one.
C17_Witness ==
    /\ Done
    /\ previous = <<OldDocument>>
    /\ saved = json_output
    /\ saved # previous

-----------------------------------------------------------------------------
(* Reading a lint result *)

LintResolved ==
    pc = "settled" /\ lint_result # <<>> /\ lint_result[1].settled = "resolved"

\* The LintResult the promise resolved to.
Linted == lint_result[1].value

IssuesWith(severity) ==
    { k \in 1..Len(Linted.issues) : Linted.issues[k].severity = severity }

\* The native start positions, plus one, of the diagnostics of the calls
\* that resolved, call after call.
RECURSIVE NormalizedPositions(_)
NormalizedPositions(outcomes) ==
    IF outcomes = <<>> THEN <<>>
    ELSE (IF LintFileRejects(Head(outcomes)) THEN <<>>
          ELSE [k \in 1..Len(LintFileDiagnostics(Head(outcomes))) |->
                   [line |-> LintFileDiagnostics(Head(outcomes))[k].range.lCur.line + 1,
                    column |-> LintFileDiagnostics(Head(outcomes))[k].range.lCur.column + 1]])
             \o NormalizedPositions(Tail(outcomes))

\* C18: in every LintResult of Statix.lint or NixfTidy.lint, errorCount is
\* the number of issues with severity error, warningCount the number with
\* severity warning, and the two add up to the number of issues.
C18_CountsMatchSeverities ==
    LintResolved
        => /\ Linted.errorCount = Cardinality(IssuesWith("error"))
           /\ Linted.warningCount = Cardinality(IssuesWith("warning"))
           /\ Linted.errorCount + Linted.warningCount = Len(Linted.issues)

\* C18 witness: a result that holds a warning, of a run in which one file
\* failed.
C18_Witness ==
    /\ LintResolved
    /\ IssuesWith("warning") # {}
    /\ \E i \in 1..Len(tool_outcomes) :
           linter = "NixfTidy" /\ LintFileRejects(tool_outcomes[i])

\* C19: every issue of every LintResult has line >= 1 and column >= 1.
C19_PositionsAtLeastOne ==
    LintResolved
        => \A k \in 1..Len(Linted.issues) :
               Linted.issues[k].line >= 1 /\ Linted.issues[k].column >= 1

\* C20: the issues of NixfTidy carry, in order, the native start line and
\* column of the diagnostics, each plus one; every issue of Statix has
\* line 1.
C20_PositionNormalization ==
    LintResolved
        => /\ linter = "NixfTidy"
                => [k \in 1..Len(Linted.issues) |->
                       [line |-> Linted.issues[k].line,
                        column |-> Linted.issues[k].column]]
                   = NormalizedPositions(tool_outcomes)
           /\ linter = "Statix"
                => \A k \in 1..Len(Linted.issues) : Linted.issues[k].line = 1

\* C20 witness: the diagnostic at native line 0, column 4 has become an
\* issue at line 1, column 5.
C20_Witness ==
    /\ LintResolved
    /\ linter = "NixfTidy"
    /\ \E i \in 1..Len(tool_outcomes) :
           /\ ~LintFileRejects(tool_outcomes[i])
           /\ \E j \in 1..Len(LintFileDiagnostics(tool_outcomes[i])) :
                  /\ LintFileDiagnostics(tool_outcomes[i])[j].range.lCur.line = 0
                  /\ LintFileDiagnostics(tool_outcomes[i])[j].range.lCur.column = 4
    /\ \E k \in 1..Len(Linted.issues) :
           Linted.issues[k].line = 1 /\ Linted.issues[k].column = 5


\* The diagnostics of the lintFile calls that resolved, call after call.
RECURSIVE NativeDiagnostics(_)
NativeDiagnostics(outcomes) ==
    IF outcomes = <<>> THEN <<>>
    ELSE (IF LintFileRejects(Head(outcomes)) THEN <<>>
          ELSE LintFileDiagnostics(Head(outcomes)))
             \o NativeDiagnostics(Tail(outcomes))

\* The severity the interface gives to a native severity of nixf-tidy.
Collapsed(native) ==
    IF native \in {0, 1} THEN <<"error">>
    ELSE IF native \in {2, 3, 4} THEN <<"warning">>
    ELSE <<>>

\* C21: in a result of NixfTidy, a diagnostic of native severity 0 or 1 is
\* an issue of severity error, one of native severity 2, 3 or 4 an issue of
\* severity warning, and every issue has one of the two severities.
C21_SeverityCollapse ==
    (LintResolved /\ linter = "NixfTidy")
        => /\ Len(Linted.issues) = Len(NativeDiagnostics(tool_outcomes))
           /\ \A k \in 1..Len(Linted.issues) :
                  /\ Linted.issues[k].severity \in {"error", "warning"}
                  /\ <<Linted.issues[k].severity>>
                         = Collapsed(NativeDiagnostics(tool_outcomes)[k].severity)

\* C21 witness: a result with an error made of native severity 1 and a
\* warning made of native severity 4.
C21_Witness ==
    /\ LintResolved
    /\ linter = "NixfTidy"
    /\ \E k \in 1..Len(Linted.issues) :
           /\ NativeDiagnostics(tool_outcomes)[k].severity = 1
           /\ Linted.issues[k].severity = "error"
    /\ \E k \in 1..Len(Linted.issues) :
           /\ NativeDiagnostics(tool_outcomes)[k].severity = 4
           /\ Linted.issues[k].severity = "warning"


\* [code] stands in the message at position p, code being one capital
\* letter and then digits.
BracketedCodeAt(message, p, code) ==
    /\ Len(code) >= 2
    /\ code[1] \in Capital
    /\ \A j \in 2..Len(code) : code[j] \in Digit
    /\ p + Len(code) + 1 <= Len(message)
    /\ SubSeq(message, p, p + Len(code) + 1) = <<"[">> \o code \o <<"]">>

\* The bracketed codes of the message that start at position p.
CodesAt(message, p) ==
    { code \in { SubSeq(message, p + 1, q) : q \in (p + 1)..Len(message) } :
          BracketedCodeAt(message, p, code) }

\* C22: the rule of an issue of Statix is the first bracketed code (one
\* capital letter, then digits) of its message and is unset when the
\* message holds none; it is never a value that does not occur in the
\* message.
C22_RuleIsFirstBracketedCode ==
    (LintResolved /\ linter = "Statix")
        => \A k \in 1..Len(Linted.issues) :
               LET message == Linted.issues[k].message
                   rule == Linted.issues[k].rule
                   places == { p \in 1..Len(message) : CodesAt(message, p) # {} }
               IN  /\ places = {} => rule = <<>>
                   /\ places # {}
                        => \E p \in places :
                               /\ \A q \in places : p <= q
                               /\ Len(rule) = 1
                               /\ rule[1] \in CodesAt(message, p)

\* C22 witness: a result with the rule W20 for a message that holds [W20]
\* and then [W03], the rule W04 for a message where [w1], [WW1], [W] and
\* [1] come before [W04], and an unset rule for a message without code.
C22_Witness ==
    /\ LintResolved
    /\ linter = "Statix"
    /\ \E k \in 1..Len(Linted.issues) :
           /\ Linted.issues[k].message = StatixNotes.both
           /\ Linted.issues[k].rule = << <<"W", "2", "0">> >>
    /\ \E k \in 1..Len(Linted.issues) :
           /\ Linted.issues[k].message = StatixNotes.near
           /\ Linted.issues[k].rule = << <<"W", "0", "4">> >>
    /\ \E k \in 1..Len(Linted.issues) :
           /\ Linted.issues[k].message = StatixNotes.pattern
           /\ Linted.issues[k].rule = <<>>


\* Statix's stdout holds no JSON at all, or holds a line that is not JSON.
NoisyLines(stdout) ==
    \/ \A k \in 1..Len(stdout) : stdout[k].json \in {"empty", "spaces", "malformed"}
    \/ \E k \in 1..Len(stdout) : stdout[k].json = "malformed"

\* Every linter call of the run printed nothing or something that is not
\* JSON.
NoisyRun ==
    /\ pc = "settled"
    /\ linter = "Statix"
         => tool_outcomes[1].has_stdout /\ NoisyLines(tool_outcomes[1].stdout)
    /\ linter = "NixfTidy"
         => \A i \in 1..Len(tool_outcomes) :
                tool_outcomes[i].stdout.json \in {"empty", "malformed"}

\* C23: when the stdout of statix or nixf-tidy is empty, malformed JSON or
\* plain text, lint() does not raise and resolves to the clean result: no
\* issues, errorCount 0, warningCount 0.
C23_NoiseGivesCleanResult ==
    NoisyRun
        => /\ LintResolved
           /\ Linted.issues = <<>>
           /\ Linted.errorCount = 0
           /\ Linted.warningCount = 0

\* C23 witness: statix failed and printed a report with suggestions and a
\* line of plain text; the result is clean.
C23_Witness ==
    /\ NoisyRun
    /\ linter = "Statix"
    /\ tool_outcomes[1].failed
    /\ \E k \in 1..Len(tool_outcomes[1].stdout) :
           /\ tool_outcomes[1].stdout[k].json = "report"
           /\ tool_outcomes[1].stdout[k].value.suggestions # <<>>
    /\ \E k \in 1..Len(tool_outcomes[1].stdout) :
           tool_outcomes[1].stdout[k].json = "malformed"
    /\ LintResolved
    /\ Linted.issues = <<>>


\* The issue list holds an issue for the diagnostic of the file.
HasIssueFor(issue_list, file, diagnostic) ==
    \E k \in 1..Len(issue_list) :
        /\ issue_list[k].file = file
        /\ issue_list[k].line = diagnostic.range.lCur.line + 1
        /\ issue_list[k].column = diagnostic.range.lCur.column + 1
        /\ issue_list[k].rule = diagnostic.sname

\* The issue list holds an issue for the suggestion of the report.
HasIssueForSuggestion(issue_list, report, suggestion) ==
    \E k \in 1..Len(issue_list) :
        /\ issue_list[k].file = report.file
        /\ issue_list[k].column = suggestion.at.from
        /\ issue_list[k].message = suggestion.note

\* C24: when the linter process ends with a non-zero exit code and its
\* stdout holds a parseable diagnostics payload, lint() resolves and every
\* diagnostic of that stdout is an issue of the result.
C24_FindingsOfFailedRunAreParsed ==
    /\ (pc = "settled" /\ linter = "Statix"
           /\ tool_outcomes[1].failed /\ tool_outcomes[1].has_stdout
           /\ \A k \in 1..Len(tool_outcomes[1].stdout) :
                  tool_outcomes[1].stdout[k].json = "report")
          => /\ LintResolved
             /\ \A k \in 1..Len(tool_outcomes[1].stdout) :
                    \A j \in 1..Len(tool_outcomes[1].stdout[k].value.suggestions) :
                        HasIssueForSuggestion(Linted.issues,
                            tool_outcomes[1].stdout[k].value,
                            tool_outcomes[1].stdout[k].value.suggestions[j])
    /\ (pc = "settled" /\ linter = "NixfTidy")
          => /\ LintResolved
             /\ \A i \in 1..Len(tool_outcomes) :
                    (/\ tool_outcomes[i].event = "close"
                     /\ tool_outcomes[i].code # 0
                     /\ tool_outcomes[i].stdout.json \in {"array", "object"})
                        => \A j \in 1..Len(tool_outcomes[i].stdout.diagnostics) :
                               HasIssueFor(Linted.issues, filePaths[i],
                                           tool_outcomes[i].stdout.diagnostics[j])


\* C25: Statix.lint rejects with the error of the statix call exactly when
\* that error carries no stdout field; when the error carries a stdout
\* field, whatever it holds, Statix.lint resolves to a LintResult.
C25_StatixRejectsOnlyWithoutStdout ==
    (pc = "settled" /\ linter = "Statix" /\ tool_outcomes[1].failed)
        => /\ lint_result[1] = Rejected("statix error")
                <=> ~tool_outcomes[1].has_stdout
           /\ tool_outcomes[1].has_stdout => LintResolved


\* The lintFile call failed in one of the four ways: the file could not be
\* read, the process could not be spawned, it exited non-zero with text on
\* stderr, or its output could not be parsed.
FileFailed(outcome) ==
    \/ outcome.event = "read-failure"
    \/ outcome.event = "error"
    \/ outcome.event = "close" /\ outcome.code # 0 /\ outcome.stderr
    \/ outcome.event = "close" /\ outcome.stdout.json = "malformed"

\* File, position and rule of what the files that did not fail reported,
\* file after file.
RECURSIVE ReportedBy(_, _)
ReportedBy(files, outcomes) ==
    IF outcomes = <<>> THEN <<>>
    ELSE (IF FileFailed(Head(outcomes)) \/ Head(outcomes).stdout.json = "empty"
          THEN <<>>
          ELSE [k \in 1..Len(Head(outcomes).stdout.diagnostics) |->
                   [file |-> Head(files),
                    line |-> Head(outcomes).stdout.diagnostics[k].range.lCur.line + 1,
                    column |-> Head(outcomes).stdout.diagnostics[k].range.lCur.column + 1,
                    rule |-> Head(outcomes).stdout.diagnostics[k].sname]])
             \o ReportedBy(Tail(files), Tail(outcomes))

\* C26: NixfTidy.lint lints every file of the list whatever happens to the
\* others; a file whose lintFile call fails adds no issue, and the issues
\* of all the files that did not fail, before and after a failing one, are
\* in the result.
C26_FileFailuresAreIsolated ==
    (pc = "settled" /\ linter = "NixfTidy")
        => /\ LintResolved
           /\ Len(tool_outcomes) = Len(filePaths)
           /\ [k \in 1..Len(Linted.issues) |->
                  [file |-> Linted.issues[k].file,
                   line |-> Linted.issues[k].line,
                   column |-> Linted.issues[k].column,
                   rule |-> Linted.issues[k].rule]]
              = ReportedBy(filePaths, tool_outcomes)

\* C26 witness: the first of two files reported a diagnostic, the second
\* failed, and the result holds the issue of the first.
C26_Witness ==
    /\ LintResolved
    /\ linter = "NixfTidy"
    /\ Len(filePaths) = 2
    /\ ~FileFailed(tool_outcomes[1])
    /\ FileFailed(tool_outcomes[2])
    /\ Len(Linted.issues) = 1
    /\ Linted.issues[1].file = filePaths[1]


\* The native message with its i-th placeholder replaced by the i-th
\* argument.
Substituted(diagnostic) ==
    LET message == diagnostic.message
        Rank(k) == Cardinality({ j \in 1..k : message[j] = "{}" })
    IN  [k \in 1..Len(message) |->
            IF message[k] = "{}" /\ Rank(k) <= Len(diagnostic.args)
            THEN diagnostic.args[Rank(k)]
            ELSE message[k]]

\* C27: the message of every issue of NixfTidy is the native message in
\* which the i-th {} placeholder is replaced by the i-th element of args,
\* for every args list, also one whose text holds {}.
C27_PlaceholdersSubstituted ==
    (LintResolved /\ linter = "NixfTidy")
        => /\ Len(Linted.issues) = Len(NativeDiagnostics(tool_outcomes))
           /\ \A k \in 1..Len(Linted.issues) :
                  Linted.issues[k].message
                      = Substituted(NativeDiagnostics(tool_outcomes)[k])


\* The adapter of each linterType of the closed set.
AdapterOf ==
    [t \in { <<"eslint">>, <<"golangci-lint">>, <<"statix">>, <<"nixf-tidy">> } |->
        IF t = <<"eslint">> THEN "ESLint"
        ELSE IF t = <<"golangci-lint">> THEN "GolangciLint"
        ELSE IF t = <<"statix">> THEN "Statix"
        ELSE "NixfTidy"]

\* C28: getLinter gives ESLint for eslint, GolangciLint for golangci-lint,
\* Statix for statix, NixfTidy for nixf-tidy, and null for an undefined
\* linterType and for every other value.
C28_LinterFromClosedSet ==
    pc # "provider"
        => /\ config.linterType \in DOMAIN AdapterOf
                => linter = AdapterOf[config.linterType]
           /\ config.linterType \notin DOMAIN AdapterOf => linter = "null"
           /\ linter = "null" <=> pc = "skipped"

\* C28 witness: nixf-tidy has given NixfTidy, whose lint() has settled.
C28_Witness ==
    /\ config.linterType = <<"nixf-tidy">>
    /\ linter = "NixfTidy"
    /\ LintResolved


\* Standard input is piped: lines are waiting on it (on a terminal none
\* are).
StdinPiped == stdin # <<>>

\* C29: with standard input piped and no --passthrough among the
\* arguments, the script acts as in passthrough mode: it never gets to
\* the search for a test file or to the run of nix-unit, and what it
\* parses are the lines of standard input.
C29_AutoPassthrough ==
    (StdinPiped /\ FlagPositions("--passthrough") = {})
        => /\ pc \notin {"find", "run"}
           /\ Parsing => /\ lines # <<>>
                          /\ Len(lines) <= Len(stdin) + 1
                          /\ lines[1] = stdin[1]


\* The places the documentation lists for the test file, in its order.
SearchOrder == <<"tests.nix", "test.nix", "test/tests.nix", "nix/tests.nix">>

Found == { k \in 1..Len(SearchOrder) : SearchOrder[k] \in cwd_files }

NoTestFileGiven == FlagPositions("--test-file") = {} /\ EqPositions("--test-file=*") = {}

\* C30: in run mode without --test-file, nix-unit is run on the first of
\* tests.nix, test.nix, test/tests.nix, nix/tests.nix that exists, and the
\* script exits with an error only when none of the four exists.
C30_TestFileSearch ==
    (NoTestFileGiven /\ ArgsCompleted /\ ConfigValid /\ PASSTHROUGH = FALSE)
        => /\ pc = "run"
                => /\ Found # {}
                   /\ \E k \in Found :
                          /\ \A j \in Found : k <= j
                          /\ TEST_FILE = SearchOrder[k]
           /\ exit_status = <<1>> => Found = {}


-----------------------------------------------------------------------------
(* Reading the lintFile calls *)

\* The lintFile calls whose promise is not settled.
PendingCalls == { k \in 1..Len(children) : children[k].promise = <<>> }

\* The event that settled each call, call after call.
SettledBy == [k \in 1..Len(children) |-> children[k].promise[1]]

\* C31: NixfTidy.lint handles the files one after the other: a child is
\* spawned only when the outcome of every earlier file is determined, so
\* at most one lintFile call is pending, the k-th call is for the k-th
\* file, and the issues of the result are grouped by file in input order,
\* each group in the order of the tool's output.
C31_FilesOneAfterTheOther ==
    linter = "NixfTidy"
        => /\ Cardinality(PendingCalls) <= 1
           /\ \A k \in PendingCalls : k = Len(children) /\ k = file_index
           /\ Len(children) <= Len(filePaths)
           /\ LintResolved
                => /\ Len(children) = Len(filePaths)
                   /\ [k \in 1..Len(Linted.issues) |->
                          [file |-> Linted.issues[k].file,
                           line |-> Linted.issues[k].line,
                           column |-> Linted.issues[k].column,
                           rule |-> Linted.issues[k].rule]]
                      = ReportedBy(filePaths, SettledBy)

\* C31 witness: two files were linted, each child reported a diagnostic,
\* and the issue of the first file stands before that of the second.
C31_Witness ==
    /\ LintResolved
    /\ linter = "NixfTidy"
    /\ filePaths = <<"b.nix", "a.nix">>
    /\ Len(Linted.issues) = 2
    /\ Linted.issues[1].file = "b.nix"
    /\ Linted.issues[2].file = "a.nix"
    /\ Linted.issues[1].rule # Linted.issues[2].rule


\* C32: NixfTidy.lint never rejects and, every child emitting its events,
\* resolves to a LintResult for every file list; the promise of a
\* lintFile call is settled by the first of close, error and read
\* failure, and an event that comes later leaves it as it is.
C32_NixfTidyAlwaysResolves ==
    /\ [](linter = "NixfTidy" /\ lint_result # <<>>
             => lint_result[1].settled = "resolved")
    /\ [][\A k \in 1..Len(children) :
              children[k].promise # <<>>
                  => children'[k].promise = children[k].promise]_vars
    /\ (linter = "NixfTidy" ~> LintResolved)

\* C32 witness: lint has resolved; the child of the first file could not
\* be spawned and that of the second was killed after a read failure, and
\* both have emitted their close event since.
C32_Witness ==
    /\ LintResolved
    /\ linter = "NixfTidy"
    /\ Len(children) = 2
    /\ children[1] = Child(<<SpawnError>>, "closed")
    /\ children[2] = Child(<<ReadFailure>>, "closed")


-----------------------------------------------------------------------------
(* Reading the test cases of the document *)

\* The test cases of the document that are not the synthetic one, and the
\* status lines of the input, both in their order.
RealTests ==
    LET Real(t) == ~IsSynthetic(t)
    IN  SelectSeq(DocTests, Real)

StatusLines == SelectSeq(lines, IsStatusLine)

\* C33: the test cases of the written document, the synthetic evaluation
\* test apart, are the status lines of the input: one test case per line,
\* in the order of the lines, named as the line, passed for the pass
\* glyph and failed for the fail glyph.
C33_OneTestPerStatusLine ==
    Done
        => /\ Len(RealTests) = Len(StatusLines)
           /\ \A k \in 1..Len(RealTests) :
                  /\ RealTests[k].name = StatusLines[k].name
                  /\ RealTests[k].state =
                         (IF StatusLines[k].status = "pass" THEN "passed" ELSE "failed")

\* C33 witness: a failing test with a detail line, closed by the pass line
\* that follows; the document holds the failed test and then the passed
\* one.
C33_Witness ==
    /\ Done
    /\ Len(lines) = 3
    /\ lines[1].status = "fail"
    /\ ~IsStatusLine(lines[2]) /\ ~Skipped(lines[2])
    /\ lines[3].status = "pass"
    /\ Len(DocTests) = 2
    /\ DocTests[1].name = lines[1].name /\ DocTests[1].state = "failed"
    /\ DocTests[2].name = lines[3].name /\ DocTests[2].state = "passed"


-----------------------------------------------------------------------------
(* Reading the data directory of two invocations *)

\* What a reader of test.json gets: <<>> when the path does not exist.
ReadTestJson ==
    IF data_files.output_file = <<>> THEN <<>>
    ELSE <<data_files.inodes[data_files.output_file[1]]>>

\* C35: two invocations that run save_test_results on one project root
\* both complete with success under every interleaving of their steps, a
\* reader of test.json sees at every moment the whole document of an
\* earlier run or of one of the two, and in the end test.json is the whole
\* document of one of the two.
C35_ConcurrentSavesAreAtomic ==
    savers # <<>>
        => /\ \A p \in DOMAIN savers : savers[p].status # <<1>>
           /\ ReadTestJson # <<>>
                => \/ ReadTestJson[1] = <<OldDocument>>
                   \/ \E p \in DOMAIN savers :
                          ReadTestJson[1] = <<savers[p].json_output>>
           /\ (\A p \in DOMAIN savers : savers[p].status # <<>>)
                => \E p \in DOMAIN savers :
                       ReadTestJson = << <<savers[p].json_output>> >>


-----------------------------------------------------------------------------
(* An output without lines *)

\* C36: when the captured output has no lines at all, the written document
\* has no modules (testModules = []) and reason "passed".
C36_NoLinesGivesEmptyPassed ==
    (Done /\ lines = <<>>)
        => /\ Doc.testModules = <<>>
           /\ Doc.reason = "passed"

C36_Witness ==
    /\ Done
    /\ lines = <<>>
    /\ Doc = create_test_result(<<>>, "passed")


-----------------------------------------------------------------------------
(* The truncation warning in passthrough mode *)

\* The passthrough run has left its read loop, into the parser or out of
\* the script.
ReadLoopLeft == Parsing \/ (Exited /\ pc # "args")

\* C37: in passthrough mode an input of at most L lines (L the max-output
\* limit) is handed to the parser unchanged, and the truncation warning is
\* an entry of the parser's lines only when the input had more than L
\* lines.
C37_WarningOnlyWhenLinesDiscarded ==
    (ArgsCompleted /\ ConfigValid /\ PASSTHROUGH = TRUE /\ ReadLoopLeft)
        => /\ Len(stdin) <= Number[MAX_OUTPUT_LINES]
                => (Parsing /\ lines = stdin)
           /\ (\E k \in 1..Len(lines) : lines[k] = TruncationWarning)
                => Len(stdin) > Number[MAX_OUTPUT_LINES]


-----------------------------------------------------------------------------
(* The lines of a statix output *)

\* The call of statix failed and left the output.
StatixPrinted(stdout) ==
    /\ pc = "settled"
    /\ linter = "Statix"
    /\ tool_outcomes[1].failed
    /\ tool_outcomes[1].has_stdout
    /\ tool_outcomes[1].stdout = stdout

BlankLine(l) == l.json \in {"empty", "spaces"}

\* Line k is not empty and is not JSON: text, or white space between two
\* lines that are not blank (the white space at either end of the output
\* is trimmed away).
FailsToParse(stdout, k) ==
    \/ stdout[k].json = "malformed"
    \/ /\ stdout[k].json = "spaces"
       /\ \E i \in 1..(k - 1) : ~BlankLine(stdout[i])
       /\ \E j \in (k + 1)..Len(stdout) : ~BlankLine(stdout[j])

\* Every line is a report of statix, is empty, or is white space at an end
\* of the output.
AllReports(stdout) ==
    \A k \in 1..Len(stdout) :
        \/ stdout[k].json \in {"report", "empty"}
        \/ stdout[k].json = "spaces" /\ ~FailsToParse(stdout, k)

\* The number of suggestions in the reports of the lines.
RECURSIVE SuggestionCount(_)
SuggestionCount(stdout) ==
    IF stdout = <<>> THEN 0
    ELSE (IF Head(stdout).json = "report"
          THEN Len(Head(stdout).value.suggestions)
          ELSE 0)
             + SuggestionCount(Tail(stdout))

\* C38: when one line of the statix output that is not empty fails to
\* parse as JSON the result has no issues, the reports of the other lines
\* are discarded; when every line is a report the issues are one per
\* suggestion, in the order of the lines and, within a line, of its
\* suggestions.
C38_StatixAllOrNothing ==
    \A out \in SeqsUpTo(StatixLines, MaxStdoutLines) :
        StatixPrinted(out)
            => /\ (\E k \in 1..Len(out) : FailsToParse(out, k))
                    => LintResolved /\ Linted.issues = <<>>
               /\ AllReports(out)
                    => /\ LintResolved
                       /\ Len(Linted.issues) = SuggestionCount(out)
                       /\ \A k \in 1..Len(out) :
                              out[k].json = "report"
                                  => \A j \in 1..Len(out[k].value.suggestions) :
                                         Linted.issues[SuggestionCount(SubSeq(out, 1, k - 1)) + j]
                                             = toIssue(out[k].value,
                                                       out[k].value.suggestions[j])

\* C38 witness: the first line is a report with two suggestions, the
\* second is text; the result has no issues.
C38_Witness ==
    /\ pc = "settled"
    /\ linter = "Statix"
    /\ tool_outcomes[1].failed
    /\ tool_outcomes[1].has_stdout
    /\ Len(tool_outcomes[1].stdout) = 2
    /\ tool_outcomes[1].stdout[1].json = "report"
    /\ Len(tool_outcomes[1].stdout[1].value.suggestions) = 2
    /\ FailsToParse(tool_outcomes[1].stdout, 2)
    /\ LintResolved
    /\ Linted.issues = <<>>

====
